---- MODULE Spec2Model ----
(***************************************************************************)
(* Model of the tenth-man-rule debate orchestrator:                        *)
(*   debate.Engine.Run / runRound      (src/unnamed/part_004)               *)
(*   consensus.Judge.Evaluate          (internal/debate/consensus/judge.go) *)
(*   consensus.parseConsensusJSON      (internal/debate/consensus/judge.go) *)
(*   tenthman.Activator.BuildAgent     (src/unnamed/part_006)               *)
(* The LLMClient interface is the boundary of this specification: one      *)
(* ChatCompletion call returns an error, a reply without choices, or a      *)
(* reply whose first choice carries a content string.                      *)
(***************************************************************************)
EXTENDS Integers, Sequences, FiniteSets, TLC

(***************************************************************************)
(* Bounds of the model.                                                    *)
(***************************************************************************)
\* largest --max-rounds value explored (the flag is any int; 0 is explored too)
MaxRoundsBound == 2
\* largest number of debaters explored
MaxAgents == 3
\* largest number of tokens of prose before, and after, an object in a reply
MaxProse == 2

(***************************************************************************)
(* Program constants.                                                      *)
(***************************************************************************)
\* src/unnamed/part_002: agentCount < 3 is rejected by the caller
MinAgents == 3
\* part_004: const tenthManRounds = 3
tenthManRounds == 3
\* judge.go: const maxJudgeRetries = 3
maxJudgeRetries == 3
\* types.go: FreeDebate Phase = iota; TenthManPhase
FreeDebate == 0
TenthManPhase == 1
\* part_004:295,302: consensus.Score >= 7
ScoreThreshold == 7

(***************************************************************************)
(* Pointers: a Go pointer is the empty sequence (nil) or a one-element     *)
(* sequence holding the pointee.                                           *)
(***************************************************************************)
NilPtr == <<>>
Ptr(v) == <<v>>
Deref(p) == p[1]

(***************************************************************************)
(* debate.ConsensusResult                                                  *)
(***************************************************************************)
ConsensusResult(d, p, s, ds) ==
  [Detected |-> d, Position |-> p, Score |-> s, Dissenters |-> ds]

\* the Go zero value &debate.ConsensusResult{}
ZeroResult == ConsensusResult(FALSE, "", 0, <<>>)

\* the verdicts the remote model reports in this model
Verdicts ==
  { ConsensusResult(TRUE, "P", 7, <<>>),
    ConsensusResult(TRUE, "Q", 6, <<"Bob">>),
    ConsensusResult(FALSE, "", 9, <<"Alice">>),
    ConsensusResult(FALSE, "", 3, <<"Alice", "Bob">>) }

(***************************************************************************)
(* Reply text.  A reply is a sequence of lexical tokens; the token "body"  *)
(* stands for the member list of a JSON object that decodes into the       *)
(* ConsensusResult v (every other token carries the zero result as v).     *)
(***************************************************************************)
Tok(t) == [t |-> t, v |-> ZeroResult]
LB == Tok("lbrace")
RB == Tok("rbrace")
FENCE == Tok("fence")
JSONTAG == Tok("json")
WS == Tok("ws")
NL == Tok("nl")
TXT == Tok("txt")
Body(v) == [t |-> "body", v |-> v]

IsSpace(tok) == tok.t \in {"ws", "nl"}

\* the four reply shapes of one inner object
Bare(v) == <<LB, Body(v), RB>>
FencedJSON(v) == <<TXT, NL, FENCE, JSONTAG, NL>> \o Bare(v) \o <<NL, FENCE, NL, TXT>>
FencedNoLang(v) == <<FENCE, NL>> \o Bare(v) \o <<NL, FENCE>>
Prose(v) == <<TXT, NL>> \o Bare(v) \o <<NL, TXT>>

RECURSIVE TrimLeft(_)
TrimLeft(s) ==
  IF s # <<>> /\ IsSpace(Head(s)) THEN TrimLeft(Tail(s)) ELSE s

RECURSIVE TrimRight(_)
TrimRight(s) ==
  IF s # <<>> /\ IsSpace(s[Len(s)]) THEN TrimRight(SubSeq(s, 1, Len(s) - 1)) ELSE s

\* strings.TrimSpace
TrimSpace(s) == TrimRight(TrimLeft(s))

\* strings.Index: position of the first token tok in s, 0 when absent
\* (Go returns -1; positions here are 1-based)
Index(s, tok) ==
  IF \E i \in 1..Len(s) : s[i] = tok
    THEN CHOOSE i \in 1..Len(s) : s[i] = tok /\ \A j \in 1..(i - 1) : s[j] # tok
    ELSE 0

\* strings.LastIndex
LastIndex(s, tok) ==
  IF \E i \in 1..Len(s) : s[i] = tok
    THEN CHOOSE i \in 1..Len(s) : s[i] = tok /\ \A j \in (i + 1)..Len(s) : s[j] # tok
    ELSE 0

\* json.Unmarshal into a ConsensusResult: surrounding white space is
\* allowed, the text must be exactly one object
jsonUnmarshal(s) ==
  LET t == TrimSpace(s) IN
  IF Len(t) = 3 /\ t[1] = LB /\ t[2].t = "body" /\ t[3] = RB
    THEN [ok |-> TRUE, result |-> t[2].v]
  ELSE IF Len(t) = 2 /\ t[1] = LB /\ t[2] = RB
    THEN [ok |-> TRUE, result |-> ZeroResult]
  ELSE [ok |-> FALSE, result |-> ZeroResult]

\* codeBlockRe.FindStringSubmatch (fence, optional json tag, white space,
\* lazy capture, optional newline, fence);
\* leftmost match: the first fence and the next fence after it; the capture
\* is what lies between, after an optional json tag
codeBlockMatch(raw) ==
  LET open == Index(raw, FENCE)
      rest == IF open = 0 THEN <<>> ELSE SubSeq(raw, open + 1, Len(raw))
      close == Index(rest, FENCE)
      inner == IF close = 0 THEN <<>> ELSE SubSeq(rest, 1, close - 1)
      untagged == IF inner # <<>> /\ Head(inner) = JSONTAG THEN Tail(inner) ELSE inner
  IN [found |-> open # 0 /\ close # 0, capture |-> TrimSpace(untagged)]

\* the substring raw[start:end+1] of the brace scan
braceSpan(raw) ==
  LET start == Index(raw, LB)
      end == LastIndex(raw, RB)
  IN [found |-> start >= 1 /\ end > start,
      text |-> IF start >= 1 /\ end > start THEN SubSeq(raw, start, end) ELSE <<>>]

\* judge.go parseConsensusJSON
parseConsensusJSON(raw) ==
  LET direct == jsonUnmarshal(raw)
      block == codeBlockMatch(raw)
      fenced == jsonUnmarshal(block.capture)
      span == braceSpan(raw)
      scanned == jsonUnmarshal(span.text)
  IN IF direct.ok THEN direct
     ELSE IF block.found /\ fenced.ok THEN fenced
     ELSE IF span.found /\ scanned.ok THEN scanned
     ELSE [ok |-> FALSE, result |-> ZeroResult]


(***************************************************************************)
(* debate.Agent, debate.Turn, debate.Transcript, debate.Result             *)
(***************************************************************************)
Agent(id, name, model, role) == [ID |-> id, Name |-> name, Model |-> model, Role |-> role]

Turn(round, agent, content) == [Round |-> round, Agent |-> agent, Content |-> content]

\* NewEngine: &Transcript{Topic: topic, Phase: FreeDebate}
NewTranscript(topic) == [Topic |-> topic, Turns |-> <<>>, Phase |-> FreeDebate, Rounds |-> 0]

Result(tr, c) == [Transcript |-> tr, Consensus |-> c]

\* src/unnamed/part_002: names of the debaters
Names == <<"Alice", "Bob", "Carol", "Dave", "Eve", "Frank", "Grace", "Heidi", "Ivan">>

\* models.DefaultFreeModels, by position
FreeModels ==
  <<"qwen/qwen3-235b-a22b:free", "google/gemma-3n-e2b-it:free",
    "nvidia/nemotron-nano-9b-v2:free", "qwen/qwen3-coder:free",
    "openai/gpt-oss-120b:free">>

\* models.Registry.SelectModels(n)[i] with i counted from 1: cycles the free list
SelectModel(i) == FreeModels[((i - 1) % Len(FreeModels)) + 1]

\* src/unnamed/part_002: the agents built for agentCount = n
makeAgents(n) ==
  [i \in 1..n |->
     Agent(i, IF i <= Len(Names) THEN Names[i] ELSE "Agent-n", SelectModel(i), "debater")]

\* tenthman.Activator.BuildAgent
BuildAgent(consensusPosition, agentID, model) ==
  Agent(agentID, "The Tenth Man", model, "tenth-man")

(***************************************************************************)
(* Notifications to the observer (Engine.OnPhase, Engine.OnTurn).          *)
(***************************************************************************)
NoTurn == Turn(0, Agent(0, "", "", ""), "")

OnPhase(phase) == [kind |-> "phase", phase |-> phase, turn |-> NoTurn]

\* the phase field of a turn notification is the Transcript phase at the call
OnTurn(turn, phase) == [kind |-> "turn", phase |-> phase, turn |-> turn]

(***************************************************************************)
(* Outcomes of one LLMClient.ChatCompletion call.                          *)
(***************************************************************************)
CallError == [kind |-> "err", choices |-> <<>>]
Reply(choices) == [kind |-> "ok", choices |-> choices]

\* what a turn call for the participant a can return: an error, or a reply;
\* the replies to the participant silent carry no choices, the others one
TurnOutcomes(a, silent) ==
  {CallError, IF a.ID = silent THEN Reply(<<>>) ELSE Reply(<<"a">>)}

\* reply texts that do not parse: "not json", "{broken"
NotJSON == <<TXT>>
Broken == <<TXT, WS, LB, TXT>>

\* reply texts the judge model sends
JudgeReplies ==
  {Bare(v) : v \in Verdicts}
    \cup {FencedJSON(ConsensusResult(TRUE, "P", 7, <<>>)), <<LB, RB>>, NotJSON, Broken}

JudgeOutcomes == {CallError, Reply(<<>>)} \cup {Reply(<<raw>>) : raw \in JudgeReplies}

(***************************************************************************)
(* The prompts (internal/debate/prompts.go, tenthman.Activator and         *)
(* Judge.Evaluate): a prompt is a sequence of openrouter.Message.  The long *)
(* dash of the two source texts that have one is written as two hyphens.   *)
(***************************************************************************)
Message(role, content) == [Role |-> role, Content |-> content]

\* prompts.go:9-11
agentSystemPrompt(agent, topic) ==
  "You are " \o agent.Name \o ", a debate participant. The topic is: " \o topic
    \o ". Provide your analysis and perspective. Be concise but thorough."

\* prompts.go:13-15
phase2SystemPrompt(agent, topic) ==
  "You are " \o agent.Name \o ", a debate participant. The topic is: " \o topic
    \o ". The Tenth Man has been activated and is arguing against the group consensus."
    \o " You MUST directly engage with the Tenth Man's arguments -- address them"
    \o " specifically, refute or acknowledge them. Be concise but thorough."

\* tenthman.Activator.SystemPrompt
SystemPrompt(position) ==
  "You are The Tenth Man. The group has reached consensus on the following position: "
    \o position \o ". "
    \o "You are OBLIGATED to argue the contrary position -- not as token opposition, but with genuine analytical rigor. "
    \o "Build the strongest possible case AGAINST the consensus. "
    \o "Investigate, find evidence, construct scenarios where the majority is wrong. "
    \o "Be thorough but concise."

\* faulty variant: the role of the participant is not looked at
systemPromptMut(agent, topic, tr, position) ==
  IF tr.Phase = TenthManPhase
    THEN phase2SystemPrompt(agent, topic)
    ELSE agentSystemPrompt(agent, topic)

\* prompts.go:18-25: the system prompt of a turn; Engine.tenthMan is never
\* nil (part_002 passes tenthman.NewActivator())
systemPrompt(agent, topic, tr, position) ==
  IF agent.Role = "tenth-man"
    THEN SystemPrompt(position)
  ELSE IF tr.Phase = TenthManPhase /\ agent.Role # "tenth-man"
    THEN phase2SystemPrompt(agent, topic)
  ELSE agentSystemPrompt(agent, topic)

\* prompts.go:33  fmt.Sprintf("%s: %s", turn.Agent.Name, turn.Content)
TurnLine(turn) == turn.Agent.Name \o ": " \o turn.Content

\* faulty variant: only the turns of the rounds that are over are shown
turnMessagesMut(tr) ==
  LET shown == SelectSeq(tr.Turns, LAMBDA t : t.Round <= tr.Rounds)
  IN [i \in DOMAIN shown |-> Message("user", TurnLine(shown[i]))]

\* prompts.go:29-34: one user message for each turn of the Transcript
turnMessages(tr) ==
  [i \in DOMAIN tr.Turns |-> Message("user", TurnLine(tr.Turns[i]))]

\* prompts.go:36-39
TurnDirective ==
  Message("user", "It's your turn to speak. Provide your perspective on the topic.")

\* prompts.go:17-41
buildMessages(agent, topic, tr, position) ==
  <<Message("system", systemPrompt(agent, topic, tr, position))>>
    \o turnMessages(tr) \o <<TurnDirective>>

\* judge.go:31-36
JudgeSystem ==
  Message("system",
    "You are a consensus judge. Analyze the debate transcript and return ONLY valid JSON in this exact format:\n"
    \o "{\"consensus_detected\": bool, \"consensus_position\": \"...\", \"agreement_score\": 1-10, \"dissenting_agents\": [\"...\"]}\n"
    \o "Do NOT include any other text, explanation, or markdown formatting. Return ONLY the JSON object.")

\* judge.go:38-41: strings.Builder, one line for each turn
RECURSIVE Serialize(_)
Serialize(turns) ==
  IF turns = <<>> THEN ""
  ELSE Serialize(SubSeq(turns, 1, Len(turns) - 1))
         \o turns[Len(turns)].Agent.Name \o ": " \o turns[Len(turns)].Content \o "\n"

\* judge.go:42
JudgeUser(tr) == Message("user", Serialize(tr.Turns))

\* judge.go:52-55
JudgeCorrective ==
  Message("user",
    "Your previous response was not valid JSON. Return ONLY a JSON object, no markdown, no explanation.")

\* faulty variant: the corrective message takes the place of the transcript
judgeMessagesMut(tr, a) ==
  IF a > 0 THEN <<JudgeSystem, JudgeCorrective>> ELSE <<JudgeSystem, JudgeUser(tr)>>

\* judge.go:49-56: the messages of the attempt a (counted from 0)
judgeMessages(tr, a) ==
  LET msgs == <<JudgeSystem, JudgeUser(tr)>>
  IN IF a > 0 THEN Append(msgs, JudgeCorrective) ELSE msgs

\* faulty variant: Evaluate empties the turns it has serialized
EvaluateTranscriptMut(tr) == [tr EXCEPT !.Turns = <<>>]

\* judge.go:30-70: *transcript as Evaluate leaves it: Evaluate ranges over
\* transcript.Turns (39-41) and assigns to no field
EvaluateTranscript(tr) == tr

\* prompts.go:17-41: *transcript as buildMessages leaves it: it reads
\* transcript.Phase (21) and ranges over transcript.Turns (30)
buildMessagesTranscript(tr) == tr

(***************************************************************************)
(* The call layer (internal/openrouter/client.go): 64-bit integers.        *)
(* time.Duration is an int64 of nanoseconds and strconv.Atoi yields a      *)
(* 64-bit int, so a value is kept as its eight bytes, lowest first, in     *)
(* two's complement; arithmetic wraps at 2^64 as Go's does.                *)
(***************************************************************************)
WordLen == 8
Byte == 256

RECURSIVE ToWord(_, _)
\* the bytes of the natural n, from byte i up
ToWord(n, i) ==
  IF i > WordLen THEN <<>> ELSE <<n % Byte>> \o ToWord(n \div Byte, i + 1)

\* int64(n) for a natural n
Int64(n) == ToWord(n, 1)

RECURSIVE MulCarry(_, _, _, _)
\* w * m + carry from byte i up, with the carry out of the top byte
MulCarry(w, m, i, carry) ==
  IF i > WordLen THEN [w |-> <<>>, carry |-> carry]
  ELSE LET t == w[i] * m + carry
           rest == MulCarry(w, m, i + 1, t \div Byte)
       IN [w |-> <<t % Byte>> \o rest.w, carry |-> rest.carry]

\* w * m + a in 64 bits (m and a small naturals)
MulAdd(w, m, a) == MulCarry(w, m, 1, a).w

\* the same product leaves 64 bits
MulAddOverflows(w, m, a) == MulCarry(w, m, 1, a).carry # 0

\* -w in two's complement
Neg(w) == MulAdd([i \in 1..WordLen |-> (Byte - 1) - w[i]], 1, 1)

IsNeg(w) == w[WordLen] >= Byte \div 2
IsZero(w) == \A i \in 1..WordLen : w[i] = 0
\* w > 0
Positive(w) == ~IsNeg(w) /\ ~IsZero(w)

\* time.Second: 1000 * time.Millisecond, itself 1000 * 1000 nanoseconds
Thousand == 1000
\* time.Duration(w) * time.Second
TimesSecond(w) == MulAdd(MulAdd(MulAdd(w, Thousand, 0), Thousand, 0), Thousand, 0)

(***************************************************************************)
(* strconv.Atoi on the text of a header, a sequence of characters.         *)
(***************************************************************************)
Digits == <<"0", "1", "2", "3", "4", "5", "6", "7", "8", "9">>
IsDigit(c) == \E i \in 1..Len(Digits) : Digits[i] = c
DigitVal(c) == (CHOOSE i \in 1..Len(Digits) : Digits[i] = c) - 1
Radix == 10

RECURSIVE ParseUint(_, _, _)
\* strconv.ParseUint: the digits of s from position i on, added to acc; ok
\* is lost on a character that is no digit and on a value that leaves 64
\* bits
ParseUint(s, i, acc) ==
  IF i > Len(s) THEN [ok |-> TRUE, n |-> acc]
  ELSE IF ~IsDigit(s[i]) THEN [ok |-> FALSE, n |-> acc]
  ELSE IF MulAddOverflows(acc, Radix, DigitVal(s[i])) THEN [ok |-> FALSE, n |-> acc]
  ELSE ParseUint(s, i + 1, MulAdd(acc, Radix, DigitVal(s[i])))

\* strconv.Atoi(s): an optional sign, then decimal digits only, and a value
\* within -2^63 .. 2^63 - 1
Atoi(s) ==
  LET signed == Len(s) > 0 /\ s[1] \in {"+", "-"}
      neg == signed /\ s[1] = "-"
      first == IF signed THEN 2 ELSE 1
      mag == ParseUint(s, first, Int64(0))
      fail == [ok |-> FALSE, n |-> Int64(0)]
  IN IF first > Len(s) \/ ~mag.ok THEN fail
     ELSE IF ~neg /\ IsNeg(mag.n) THEN fail
     ELSE IF neg /\ IsNeg(mag.n) /\ Neg(mag.n) # mag.n THEN fail
     ELSE [ok |-> TRUE, n |-> IF neg THEN Neg(mag.n) ELSE mag.n]

(***************************************************************************)
(* State.                                                                  *)
(***************************************************************************)
VARIABLES
  minRounds,          \* Engine.minRounds
  maxRounds,          \* Engine.maxRounds
  tenthManModel,      \* Engine.tenthManModel
  agents,             \* Engine.agents
  transcript,         \* *Engine.transcript
  consensusPosition,  \* Engine.consensusPosition
  consensus,          \* Run: local variable consensus (a pointer)
  round,              \* Run: loop variable round
  startRound,         \* Run: local variable startRound
  idx,                \* runRound: position in the range over Engine.agents
  attempt,            \* Evaluate: loop variable attempt
  pc,                 \* where Run stands: at which call, or how it ended
  cancelled,          \* ctx.Err() != nil
  result,             \* the *Result Run returned (a pointer)
  err,                \* the error Run returned ("" = nil)
  events,             \* what the observer has been told, in order
  verdictLog,         \* every verdict Evaluate has returned, in order
  evalOutcomes,       \* the call outcomes of the Evaluate under way or just over
  evalState,          \* how the Evaluate under way or just over stands
  failure,            \* the first failure the run has met ("none" if none)
  silentAgent,        \* the ID of the participant whose model replies without
                      \* choices (0 = none does)
  turnMsgs,           \* runRound: msgs, the prompt of the last turn call
  evalMsgs,           \* Evaluate: msgs of each attempt of the Evaluate under
                      \* way or just over, in order
  backoffFunc,        \* Client.backoffFunc, by the name of the function
  ctxDone,            \* doWithRetry: ctx.Done() is closed
  callPc,             \* where doWithRetry stands, or how it returned
  callAttempt,        \* doWithRetry: loop variable attempt
  delay,              \* doWithRetry: the duration of the wait under way
  httpResp,           \* doWithRetry: resp, the last response received
  lastErr,            \* doWithRetry: lastErr
  callErr,            \* the error doWithRetry returned
  requests,           \* the requests that have reached the remote endpoint
  waits,              \* the waits doWithRetry has ended, in order
  raw,                \* parseConsensusJSON: raw, the reply text
  inner,              \* the verdict whose object the reply text carries
  form,               \* the shape of the reply text
  extracted           \* what parseConsensusJSON returned (a pointer)

vars == <<minRounds, maxRounds, tenthManModel, agents, transcript,
          consensusPosition, consensus, round, startRound, idx, attempt, pc,
          cancelled, result, err, events, verdictLog, evalOutcomes, evalState,
          failure, silentAgent, turnMsgs, evalMsgs, backoffFunc, ctxDone,
          callPc, callAttempt, delay, httpResp, lastErr, callErr, requests,
          waits, raw, inner, form, extracted>>

\* the variables of Engine.Run and of Judge.Evaluate
runVars == <<minRounds, maxRounds, tenthManModel, agents, transcript,
             consensusPosition, consensus, round, startRound, idx, attempt, pc,
             cancelled, result, err, events, verdictLog, evalOutcomes,
             evalState, failure, silentAgent, turnMsgs, evalMsgs>>

\* the variables of parseConsensusJSON
parseVars == <<raw, inner, form, extracted>>

\* the variables of Client.doWithRetry
callVars == <<backoffFunc, ctxDone, callPc, callAttempt, delay, httpResp,
              lastErr, callErr, requests, waits>>

\* the variables Run and runRound write
Cur ==
  [pc |-> pc, round |-> round, idx |-> idx, attempt |-> attempt,
   startRound |-> startRound, agents |-> agents, transcript |-> transcript,
   consensus |-> consensus, consensusPosition |-> consensusPosition,
   events |-> events, result |-> result, err |-> err]

Apply(k) ==
  /\ pc' = k.pc
  /\ round' = k.round
  /\ idx' = k.idx
  /\ attempt' = k.attempt
  /\ startRound' = k.startRound
  /\ agents' = k.agents
  /\ transcript' = k.transcript
  /\ consensus' = k.consensus
  /\ consensusPosition' = k.consensusPosition
  /\ events' = k.events
  /\ result' = k.result
  /\ err' = k.err

Terminal == {"done", "failed", "panic"}


(***************************************************************************)
(* Engine.Run, cut at its calls of LLMClient.ChatCompletion.  Each         *)
(* operator below is a piece of Run applied to the record k of the         *)
(* variables Run writes; it yields their values at the next call or at     *)
(* the return.                                                             *)
(***************************************************************************)
\* part_004:329-332  return &Result{Transcript: e.transcript, Consensus: consensus}, nil
Return(k) ==
  [k EXCEPT !.pc = "done", !.result = Ptr(Result(k.transcript, k.consensus))]

\* return nil, err
Fail(k, e) == [k EXCEPT !.pc = "failed", !.err = e]

\* faulty variant: the error of a turn call is noted and runRound goes on
OnTurnErrorMut(k, e) == [k EXCEPT !.err = e]

\* faulty variant: a failing run starts its Transcript afresh
OnTurnErrorResetMut(k, e) ==
  Fail([k EXCEPT !.transcript = NewTranscript(k.transcript.Topic)], e)

\* part_004:342-344 and 286-288, 318-320: a failed turn call ends Run
OnTurnError(k, e) == Fail(k, e)

\* faulty variant: a failed Evaluate drops the last turn of the Transcript
OnJudgeErrorMut(k, e) ==
  Fail([k EXCEPT !.transcript.Turns = SubSeq(@, 1, Len(@) - 1)], e)

\* part_004:292-294 and 324-326: a failed Evaluate ends Run
OnJudgeError(k, e) == Fail(k, e)

\* faulty variant: the Phase 1 loop stops one round early
Phase1LoopCondMut(r) == r < maxRounds

\* part_004:285  round <= e.maxRounds
Phase1LoopCond(r) == r <= maxRounds

\* faulty variant: the first checkpoint comes one round late
JudgeDueMut(r) == r > minRounds

\* faulty variant: only the round minRounds is followed by an evaluation
JudgeDueOnceMut(r) == r = minRounds

\* part_004:289  round >= e.minRounds
JudgeDue(r) == r >= minRounds

\* faulty variant: strength 7 does not stop Phase 1
BreakCondMut(c) == c.Detected /\ c.Score > ScoreThreshold

\* part_004:295  consensus.Detected && consensus.Score >= 7
BreakCond(c) == c.Detected /\ c.Score >= ScoreThreshold

\* faulty variant: the transition looks at the strength alone
Phase2CondMut(c) == c # NilPtr /\ Deref(c).Score >= ScoreThreshold

\* part_004:302  consensus != nil && consensus.Detected && consensus.Score >= 7
Phase2Cond(c) == c # NilPtr /\ Deref(c).Detected /\ Deref(c).Score >= ScoreThreshold

\* faulty variant: the Phase 2 loop runs one round more
Phase2LoopCondMut(r, sr) == r <= sr + tenthManRounds

\* part_004:317  round < startRound+tenthManRounds
Phase2LoopCond(r, sr) == r < sr + tenthManRounds

\* judge.go:30-44: Evaluate is entered, its attempt loop starts
EnterEvaluate(k, at) == [k EXCEPT !.pc = at, !.attempt = 0]

\* part_004:317-323: head of the Phase 2 loop for round r
Phase2Loop(k, r) ==
  IF Phase2LoopCond(r, k.startRound)
    THEN [k EXCEPT !.pc = "p2_turn", !.round = r, !.idx = 1]
    ELSE EnterEvaluate(k, "p2_judge")

\* faulty variant: the transition is made without the phase notification
EnterPhase2Mut(k) ==
  LET c == Deref(k.consensus)
      model == IF tenthManModel = "" THEN k.agents[1].Model ELSE tenthManModel
      tmAgent == BuildAgent(c.Position, Len(k.agents) + 1, model)
  IN [k EXCEPT !.transcript.Phase = TenthManPhase,
               !.agents = Append(@, tmAgent),
               !.consensusPosition = c.Position,
               !.startRound = k.transcript.Rounds + 1]

\* faulty variant: the contrarian takes the place of the last participant
EnterPhase2ReplaceMut(k) ==
  LET c == Deref(k.consensus)
      model == IF tenthManModel = "" THEN k.agents[1].Model ELSE tenthManModel
      tmAgent == BuildAgent(c.Position, Len(k.agents) + 1, model)
  IN [k EXCEPT !.transcript.Phase = TenthManPhase,
               !.events = Append(@, OnPhase(TenthManPhase)),
               !.agents = [@ EXCEPT ![Len(@)] = tmAgent],
               !.consensusPosition = c.Position,
               !.startRound = k.transcript.Rounds + 1]

\* faulty variant: the contrarian is put at the head of the active set
EnterPhase2FirstMut(k) ==
  LET c == Deref(k.consensus)
      model == IF tenthManModel = "" THEN k.agents[1].Model ELSE tenthManModel
      tmAgent == BuildAgent(c.Position, Len(k.agents) + 1, model)
  IN [k EXCEPT !.transcript.Phase = TenthManPhase,
               !.events = Append(@, OnPhase(TenthManPhase)),
               !.agents = <<tmAgent>> \o @,
               !.consensusPosition = c.Position,
               !.startRound = k.transcript.Rounds + 1]

\* faulty variant: the converged position is not kept for the prompts
EnterPhase2NoSeedMut(k) ==
  LET c == Deref(k.consensus)
      model == IF tenthManModel = "" THEN k.agents[1].Model ELSE tenthManModel
      tmAgent == BuildAgent(c.Position, Len(k.agents) + 1, model)
  IN [k EXCEPT !.transcript.Phase = TenthManPhase,
               !.events = Append(@, OnPhase(TenthManPhase)),
               !.agents = Append(@, tmAgent),
               !.startRound = k.transcript.Rounds + 1]

\* part_004:303-316: the phase transition
EnterPhase2(k) ==
  LET c == Deref(k.consensus)
      model == IF tenthManModel = "" THEN k.agents[1].Model ELSE tenthManModel
      tmAgent == BuildAgent(c.Position, Len(k.agents) + 1, model)
  IN [k EXCEPT !.transcript.Phase = TenthManPhase,
               !.events = Append(@, OnPhase(TenthManPhase)),
               !.agents = Append(@, tmAgent),
               !.consensusPosition = c.Position,
               !.startRound = k.transcript.Rounds + 1]

\* part_004:301-333: what follows the Phase 1 loop
AfterPhase1(k) ==
  IF Phase2Cond(k.consensus)
    THEN LET k2 == EnterPhase2(k) IN Phase2Loop(k2, k2.startRound)
    ELSE Return(k)

\* part_004:285: head of the Phase 1 loop for round r
Phase1Loop(k, r) ==
  IF Phase1LoopCond(r)
    THEN [k EXCEPT !.pc = "p1_turn", !.round = r, !.idx = 1]
    ELSE AfterPhase1(k)

\* faulty variant: the last round of Phase 1 is judged whatever minRounds is
AfterRound1Mut(k) ==
  IF JudgeDue(k.round) \/ k.round = maxRounds
    THEN EnterEvaluate(k, "p1_judge")
    ELSE Phase1Loop(k, k.round + 1)

\* part_004:289-291: runRound returned nil in Phase 1
AfterRound1(k) ==
  IF JudgeDue(k.round) THEN EnterEvaluate(k, "p1_judge") ELSE Phase1Loop(k, k.round + 1)

\* part_004:317: runRound returned nil in Phase 2
AfterRound2(k) == Phase2Loop(k, k.round + 1)

\* part_004:291-298: Evaluate returned the verdict c in Phase 1
AfterJudge1(k, c) ==
  LET k1 == [k EXCEPT !.consensus = Ptr(c)]
  IN IF BreakCond(c) THEN AfterPhase1(k1) ELSE Phase1Loop(k1, k.round + 1)

\* faulty variant: the final verdict is dropped, the Phase 1 verdict is returned
AfterJudge2Mut(k, c) == Return(k)

\* faulty variant: a final verdict without convergence puts the Transcript
\* back in FreeDebate
AfterJudge2RevertMut(k, c) ==
  Return([k EXCEPT !.consensus = Ptr(c),
                   !.transcript.Phase = IF BreakCond(c) THEN @ ELSE FreeDebate])

\* part_004:323-332: Evaluate returned the verdict c after Phase 2
AfterJudge2(k, c) == Return([k EXCEPT !.consensus = Ptr(c)])

\* faulty variant: a reply without choices yields a placeholder text
ReplyContentMut(out) == IF Len(out.choices) > 0 THEN out.choices[1] ELSE "<nil>"

\* part_004:345-348: the content of a reply, "" when it has no choices
ReplyContent(out) == IF Len(out.choices) > 0 THEN out.choices[1] ELSE ""

\* faulty variant: a turn without content is appended but not notified
runRoundMut(k, out) ==
  IF out.kind = "err"
    THEN OnTurnError(k, "debate: agent: call failed")
    ELSE LET turn == Turn(k.round, k.agents[k.idx], ReplyContent(out))
             k0 == [k EXCEPT !.transcript.Turns = Append(@, turn)]
             k1 == IF turn.Content = "" THEN k0
                   ELSE [k0 EXCEPT !.events = Append(@, OnTurn(turn, k.transcript.Phase))]
             k2 == [k1 EXCEPT !.transcript.Rounds = k.round]
         IN IF k.idx < Len(k.agents) THEN [k1 EXCEPT !.idx = k.idx + 1]
            ELSE IF k.pc = "p1_turn" THEN AfterRound1(k2)
            ELSE AfterRound2(k2)

\* faulty variant: a round is counted as soon as one of its turns is appended
runRoundEarlyMut(k, out) ==
  IF out.kind = "err"
    THEN OnTurnError(k, "debate: agent: call failed")
    ELSE LET turn == Turn(k.round, k.agents[k.idx], ReplyContent(out))
             k1 == [k EXCEPT !.transcript.Turns = Append(@, turn),
                             !.transcript.Rounds = k.round,
                             !.events = Append(@, OnTurn(turn, k.transcript.Phase))]
         IN IF k.idx < Len(k.agents) THEN [k1 EXCEPT !.idx = k.idx + 1]
            ELSE IF k.pc = "p1_turn" THEN AfterRound1(k1)
            ELSE AfterRound2(k1)

\* part_004:335-360 runRound: the loop body for e.agents[idx] whose call
\* returned out, and what follows it up to the next call
runRound(k, out) ==
  IF out.kind = "err"
    THEN OnTurnError(k, "debate: agent: call failed")
    ELSE LET turn == Turn(k.round, k.agents[k.idx], ReplyContent(out))
             k1 == [k EXCEPT !.transcript.Turns = Append(@, turn),
                             !.events = Append(@, OnTurn(turn, k.transcript.Phase))]
             k2 == [k1 EXCEPT !.transcript.Rounds = k.round]
         IN IF k.idx < Len(k.agents) THEN [k1 EXCEPT !.idx = k.idx + 1]
            ELSE IF k.pc = "p1_turn" THEN AfterRound1(k2)
            ELSE AfterRound2(k2)

(***************************************************************************)
(* Judge.Evaluate                                                          *)
(***************************************************************************)
\* faulty variant: the default verdict reports convergence
EvaluateDefaultMut == ConsensusResult(TRUE, "", 7, <<>>)

\* judge.go:69  return &debate.ConsensusResult{}, nil
EvaluateDefault == ZeroResult

\* faulty variant: the attempt loop runs once more
AttemptLoopCondMut(a) == a <= maxJudgeRetries

\* judge.go:44  for attempt := range maxJudgeRetries
AttemptLoopCond(a) == a < maxJudgeRetries

\* judge.go:57-69: one pass of the attempt loop whose call returned out;
\* state tells whether Evaluate goes on ("running"), returned a verdict,
\* returned an error, or crashed on resp.Choices[0]
Evaluate(a, out) ==
  IF out.kind = "err"
    THEN [state |-> "error", verdict |-> ZeroResult, err |-> "consensus: call failed"]
  ELSE IF Len(out.choices) = 0
    THEN [state |-> "panic", verdict |-> ZeroResult, err |-> ""]
  ELSE LET parsed == parseConsensusJSON(out.choices[1])
       IN IF parsed.ok
            THEN [state |-> "verdict", verdict |-> parsed.result, err |-> ""]
          ELSE IF AttemptLoopCond(a + 1)
            THEN [state |-> "running", verdict |-> ZeroResult, err |-> ""]
          ELSE [state |-> "verdict", verdict |-> EvaluateDefault, err |-> ""]

\* faulty variant: a cancelled Evaluate returns the default verdict
EvaluateCancelledMut ==
  [state |-> "verdict", verdict |-> ZeroResult, err |-> ""]

\* judge.go:45-47: ctx.Err() != nil at the head of an attempt
EvaluateCancelled ==
  [state |-> "error", verdict |-> ZeroResult, err |-> "consensus: context canceled"]

\* Run after one pass of Evaluate's attempt loop
AfterEvaluate(k, ev) ==
  IF ev.state = "error"
    THEN OnJudgeError(k, IF k.pc = "p1_judge"
                           THEN "debate: consensus evaluation: " \o ev.err
                           ELSE "debate: final consensus evaluation: " \o ev.err)
  ELSE IF ev.state = "panic" THEN [k EXCEPT !.pc = "panic"]
  ELSE IF ev.state = "running" THEN [k EXCEPT !.attempt = k.attempt + 1]
  ELSE IF k.pc = "p1_judge" THEN AfterJudge1(k, ev.verdict)
  ELSE AfterJudge2(k, ev.verdict)

\* the entry of verdictLog for a verdict returned now
LogEntry(k, v) ==
  [round |-> k.transcript.Rounds, phase |-> k.transcript.Phase,
   turns |-> Len(k.transcript.Turns), verdict |-> v]

(***************************************************************************)
(* Client.doWithRetry (internal/openrouter/client.go), cut at its call of  *)
(* do and at its two waits.                                                *)
(***************************************************************************)
\* client.go:14
maxRetries == 3

\* client.go:101  http.StatusOK
StatusOK == 200
\* client.go:81, 113  http.StatusTooManyRequests
StatusTooManyRequests == 429

\* faulty variant: every error status is retried
isRetryableMut(statusCode) == statusCode >= 400

\* client.go:80-82
isRetryable(statusCode) ==
  statusCode = StatusTooManyRequests \/ statusCode >= 500

\* faulty variant: the schedule grows by one second with each retry
defaultBackoffMut(a) == TimesSecond(Int64(a + 1))

\* client.go:24-26  time.Duration(1<<uint(attempt)) * time.Second
defaultBackoff(a) == TimesSecond(Int64(2 ^ a))

\* client_test.go:156  func noDelay(attempt int) time.Duration { return 0 }
noDelay(a) == Int64(0)

\* c.backoffFunc(a)
Backoff(f, a) == IF f = "defaultBackoff" THEN defaultBackoff(a) ELSE noDelay(a)

\* what do returns: a response, of which doWithRetry reads the status, the
\* Retry-After header and the body, or a transport error (resp is then nil:
\* NoResponse).  The statuses are those of HTTP, 100 to 599.
HTTPResponse(status, retryAfter, body) ==
  [kind |-> "resp", StatusCode |-> status, RetryAfter |-> retryAfter, Body |-> body]
TransportError ==
  [kind |-> "err", StatusCode |-> 0, RetryAfter |-> <<>>, Body |-> ""]
NoResponse ==
  [kind |-> "none", StatusCode |-> 0, RetryAfter |-> <<>>, Body |-> ""]

\* the texts of a Retry-After header: absent, 1 second, 0, -1, 1.5, and
\* 10000000000 seconds
BigHint == <<"1", "0", "0", "0", "0", "0", "0", "0", "0", "0", "0">>
Hints == {<<>>, <<"1">>, <<"0">>, <<"-", "1">>, <<"1", ".", "5">>, BigHint}

Responses ==
  {HTTPResponse(StatusOK, <<>>, "ok"),
   HTTPResponse(201, <<>>, "created"),
   HTTPResponse(400, <<>>, "bad request"),
   HTTPResponse(404, <<"1">>, "not found"),
   HTTPResponse(500, <<"1">>, "server error"),
   HTTPResponse(503, <<>>, "unavailable")}
  \cup {HTTPResponse(StatusTooManyRequests, h, "rate limited") : h \in Hints}

DoOutcomes == {TransportError} \cup Responses

\* the errors doWithRetry returns
CallErr(type, status, body) == [type |-> type, status |-> status, body |-> body]
NoError == CallErr("nil", 0, "")
\* client.go:109, 129  fmt.Errorf("unexpected status %d: %s", ...)
StatusError(resp) == CallErr("status", resp.StatusCode, resp.Body)
\* ctx.Err()
CtxError == CallErr("ctx", 0, "context canceled")
\* the error of do: of the transport, or of a context that is done already
DoFailed == CallErr("transport", 0, "connection refused")
DoCancelled == CallErr("transport", 0, "context canceled")

\* the variables doWithRetry writes
CallCur ==
  [pc |-> callPc, attempt |-> callAttempt, delay |-> delay, resp |-> httpResp,
   lastErr |-> lastErr, err |-> callErr, waits |-> waits]

CallApply(k) ==
  /\ callPc' = k.pc
  /\ callAttempt' = k.attempt
  /\ delay' = k.delay
  /\ httpResp' = k.resp
  /\ lastErr' = k.lastErr
  /\ callErr' = k.err
  /\ waits' = k.waits

CallTerminal == {"ok", "err"}

\* return nil, e
CallFail(k, e) == [k EXCEPT !.pc = "err", !.err = e]

\* faulty variant: the loop allows one attempt less
RetryLoopCondMut(a) == a < maxRetries

\* client.go:86  attempt <= maxRetries
RetryLoopCond(a) == a <= maxRetries

\* client.go:86-94 and 131: the head of the loop for attempt a: the backoff
\* wait before a retry, the call of do, or the return of lastErr
RetryLoop(k, a) ==
  IF ~RetryLoopCond(a) THEN CallFail(k, k.lastErr)
  ELSE IF a > 0
    THEN [k EXCEPT !.pc = "backoff", !.attempt = a,
                   !.delay = Backoff(backoffFunc, a - 1)]
  ELSE [k EXCEPT !.pc = "do", !.attempt = a]

\* client.go:129-130: lastErr is set and the loop goes on
EndOfAttempt(k) ==
  RetryLoop([k EXCEPT !.lastErr = StatusError(k.resp)], k.attempt + 1)

\* client.go:116  raDelay := time.Duration(secs) * time.Second
raDelay(resp) == TimesSecond(Atoi(resp.RetryAfter).n)

\* client.go:113-118: the conditions under which the Retry-After wait is made
RetryAfterApplies(resp) ==
  /\ resp.StatusCode = StatusTooManyRequests
  /\ resp.RetryAfter # <<>>
  /\ Atoi(resp.RetryAfter).ok
  /\ Positive(raDelay(resp))
  /\ Positive(Backoff(backoffFunc, 0))

\* faulty variant: a transport error is retried like a 5xx status
OnDoErrorMut(k, e) == RetryLoop([k EXCEPT !.lastErr = e], k.attempt + 1)

\* client.go:97-99: an error of do ends the call
OnDoError(k, e) == CallFail(k, e)

\* faulty variant: a 200 does not end the loop
OnStatusOKMut(k) == RetryLoop(k, k.attempt + 1)

\* client.go:101-103: a 200 ends the call with the response
OnStatusOK(k) == [k EXCEPT !.pc = "ok"]

\* client.go:96-127: do has returned out
AfterDo(k, out) ==
  IF out.kind = "err" THEN OnDoError([k EXCEPT !.resp = NoResponse], DoFailed)
  ELSE LET k1 == [k EXCEPT !.resp = out]
       IN IF out.StatusCode = StatusOK THEN OnStatusOK(k1)
          ELSE IF ~isRetryable(out.StatusCode) THEN CallFail(k1, StatusError(out))
          ELSE IF RetryAfterApplies(out)
            THEN [k1 EXCEPT !.pc = "hint", !.delay = raDelay(out)]
          ELSE EndOfAttempt(k1)

\* a wait that has ended: of which kind, how long it was to last, after
\* which request it began, and what ended it
Wait(kind, d, after, ended) ==
  [kind |-> kind, d |-> d, after |-> after, ended |-> ended]

\* faulty variant: a closed ctx.Done() does not end the wait
OnCtxDoneMut(k) ==
  IF k.pc = "backoff" THEN [k EXCEPT !.pc = "do"] ELSE EndOfAttempt(k)

\* client.go:90-91, 120-121: ctx.Done() is chosen in the select
OnCtxDone(k) == CallFail(k, CtxError)

\* the select of client.go:89-93 and 119-123 may choose the timer: while
\* ctx.Done() is open the timer fires in the end; once it is closed the
\* timer is chosen only if it is ready too, which takes a delay <= 0
TimerMayFire(d, done) == ~done \/ ~Positive(d)

\* no reply text is being looked at
ParseAtRest ==
  /\ raw = <<>>
  /\ inner = ZeroResult
  /\ form = "none"
  /\ extracted = NilPtr

\* the engine's variables while only the call layer runs
EngineAtRest ==
  /\ minRounds = 1
  /\ maxRounds = 1
  /\ agents = makeAgents(MinAgents)
  /\ tenthManModel = SelectModel(MinAgents + 1)
  /\ silentAgent = 0
  /\ turnMsgs = <<>>
  /\ evalMsgs = <<>>
  /\ transcript = NewTranscript("topic")
  /\ consensusPosition = ""
  /\ consensus = NilPtr
  /\ round = 0
  /\ startRound = 0
  /\ idx = 0
  /\ attempt = 0
  /\ pc = "start"
  /\ cancelled = FALSE
  /\ result = NilPtr
  /\ err = ""
  /\ events = <<>>
  /\ verdictLog = <<>>
  /\ evalOutcomes = <<>>
  /\ evalState = "idle"
  /\ failure = "none"

\* client.go:84-86: doWithRetry is entered, with the Client of NewClient
CallAtRest ==
  /\ backoffFunc = "defaultBackoff"
  /\ ctxDone = FALSE
  /\ callPc = "do"
  /\ callAttempt = 0
  /\ delay = Int64(0)
  /\ httpResp = NoResponse
  /\ lastErr = NoError
  /\ callErr = NoError
  /\ requests = 0
  /\ waits = <<>>

(***************************************************************************)
(* Initial states: NewEngine, with the flags of the command line.          *)
(***************************************************************************)
Init ==
  /\ minRounds \in 1..(MaxRoundsBound + 1)
  /\ maxRounds \in 0..MaxRoundsBound
  /\ \E n \in MinAgents..MaxAgents :
       /\ agents = makeAgents(n)
       /\ tenthManModel = SelectModel(n + 1)
       /\ silentAgent \in 0..(n + 1)
  /\ transcript = NewTranscript("topic")
  /\ consensusPosition = ""
  /\ consensus = NilPtr
  /\ round = 0
  /\ startRound = 0
  /\ idx = 0
  /\ attempt = 0
  /\ pc = "start"
  /\ cancelled = FALSE
  /\ result = NilPtr
  /\ err = ""
  /\ events = <<>>
  /\ verdictLog = <<>>
  /\ evalOutcomes = <<>>
  /\ evalState = "idle"
  /\ failure = "none"
  /\ turnMsgs = <<>>
  /\ evalMsgs = <<>>
  /\ CallAtRest
  /\ ParseAtRest

(***************************************************************************)
(* Actions.                                                                *)
(***************************************************************************)
\* what a step of runRound to k does to the record of Evaluate: the Evaluate
\* that returned before is over, and entering Evaluate starts a new one
EvalEntered(k) ==
  /\ evalOutcomes' = <<>>
  /\ evalMsgs' = <<>>
  /\ evalState' = IF k.pc \in {"p1_judge", "p2_judge"} THEN "running" ELSE "idle"

\* part_004:278-285: Run starts: OnPhase(FreeDebate), then the Phase 1 loop
Begin ==
  /\ pc = "start"
  /\ Apply(Phase1Loop([Cur EXCEPT !.events = Append(@, OnPhase(FreeDebate))], 1))
  /\ UNCHANGED <<minRounds, maxRounds, tenthManModel, cancelled, verdictLog,
                 evalOutcomes, evalState, failure, silentAgent, turnMsgs,
                 evalMsgs>>
  /\ UNCHANGED <<callVars, parseVars>>

\* part_004:337-339: runRound sees ctx.Err() != nil before the call
TurnCancelled ==
  /\ pc \in {"p1_turn", "p2_turn"}
  /\ cancelled
  /\ LET k == OnTurnError(Cur, "debate: context canceled")
     IN /\ Apply(k)
        /\ EvalEntered(k)
  /\ failure' = "turn-ctx"
  /\ UNCHANGED <<minRounds, maxRounds, tenthManModel, cancelled, verdictLog,
                 silentAgent, turnMsgs>>
  /\ UNCHANGED <<callVars, parseVars>>

\* part_004:340-359: one turn: the call, the append, the notification.
\* ctx may be cancelled while the call is under way, whatever the call then
\* returns (part_005:151-165, cancellingMockLLM)
TurnCall ==
  /\ pc \in {"p1_turn", "p2_turn"}
  /\ ~cancelled
  /\ \E out \in TurnOutcomes(agents[idx], silentAgent) :
       /\ LET k == runRound([Cur EXCEPT !.transcript = buildMessagesTranscript(@)], out)
          IN /\ Apply(k)
             /\ EvalEntered(k)
       /\ failure' = IF out.kind = "err" THEN "turn-call" ELSE failure
  /\ turnMsgs' = buildMessages(agents[idx], transcript.Topic, transcript,
                               consensusPosition)
  /\ cancelled' \in BOOLEAN
  /\ UNCHANGED <<minRounds, maxRounds, tenthManModel, verdictLog, silentAgent>>
  /\ UNCHANGED <<callVars, parseVars>>

\* judge.go:45-47: Evaluate sees ctx.Err() != nil before an attempt
JudgeCancelled ==
  /\ pc \in {"p1_judge", "p2_judge"}
  /\ cancelled
  /\ Apply(AfterEvaluate(Cur, EvaluateCancelled))
  /\ evalState' = "error"
  /\ failure' = "judge-ctx"
  /\ UNCHANGED <<minRounds, maxRounds, tenthManModel, cancelled, verdictLog,
                 evalOutcomes, silentAgent, turnMsgs, evalMsgs>>
  /\ UNCHANGED <<callVars, parseVars>>

\* judge.go:49-66: one attempt of Evaluate: the call and the parse; when
\* Evaluate returns, Run goes on to its next call or to its return.  ctx
\* may be cancelled while the call is under way
JudgeCall ==
  /\ pc \in {"p1_judge", "p2_judge"}
  /\ ~cancelled
  /\ \E out \in JudgeOutcomes :
       LET ev == Evaluate(attempt, out)
           k == AfterEvaluate([Cur EXCEPT !.transcript = EvaluateTranscript(@)], ev)
       IN /\ Apply(k)
          /\ evalOutcomes' = Append(evalOutcomes, out)
          /\ evalMsgs' = Append(evalMsgs, judgeMessages(transcript, attempt))
          /\ evalState' = ev.state
          /\ verdictLog' = IF ev.state = "verdict"
                             THEN Append(verdictLog, LogEntry(Cur, ev.verdict))
                             ELSE verdictLog
          /\ failure' = IF out.kind = "err" THEN "judge-call" ELSE failure
  /\ cancelled' \in BOOLEAN
  /\ UNCHANGED <<minRounds, maxRounds, tenthManModel, silentAgent, turnMsgs>>
  /\ UNCHANGED <<callVars, parseVars>>

\* the caller cancels ctx (Ctrl+C in src/unnamed/part_002)
Cancel ==
  /\ pc \notin Terminal
  /\ ~cancelled
  /\ cancelled' = TRUE
  /\ UNCHANGED <<minRounds, maxRounds, tenthManModel, agents, transcript,
                 consensusPosition, consensus, round, startRound, idx, attempt,
                 pc, result, err, events, verdictLog, evalOutcomes, evalState,
                 failure, silentAgent, turnMsgs, evalMsgs>>
  /\ UNCHANGED <<callVars, parseVars>>

Next == Begin \/ TurnCancelled \/ TurnCall \/ JudgeCancelled \/ JudgeCall \/ Cancel

Spec == Init /\ [][Next]_vars

\* every call returns: a step that can be taken is taken in the end
FairSpec == Spec /\ WF_vars(Next)

(***************************************************************************)
(* The call layer on its own: one logical call of Client.doWithRetry.      *)
(***************************************************************************)
InitCall ==
  /\ EngineAtRest
  /\ ParseAtRest
  /\ backoffFunc \in {"defaultBackoff", "noDelay"}
  /\ ctxDone \in BOOLEAN
  /\ callPc = "do"
  /\ callAttempt = 0
  /\ delay = Int64(0)
  /\ httpResp = NoResponse
  /\ lastErr = NoError
  /\ callErr = NoError
  /\ requests = 0
  /\ waits = <<>>

\* client.go:96 and 59-67: do is called; with a context that is done the
\* HTTP client returns the context's error and sends nothing
Do ==
  /\ callPc = "do"
  /\ IF ctxDone
       THEN /\ CallApply(OnDoError([CallCur EXCEPT !.resp = NoResponse], DoCancelled))
            /\ requests' = requests
       ELSE /\ \E out \in DoOutcomes : CallApply(AfterDo(CallCur, out))
            /\ requests' = requests + 1
  /\ UNCHANGED <<backoffFunc, ctxDone>>
  /\ UNCHANGED <<runVars, parseVars>>

\* client.go:89-93: the select of the backoff wait takes <-time.After(delay)
BackoffElapsed ==
  /\ callPc = "backoff"
  /\ TimerMayFire(delay, ctxDone)
  /\ CallApply([CallCur EXCEPT
                  !.pc = "do",
                  !.waits = Append(@, Wait("backoff", delay, requests, "timer"))])
  /\ UNCHANGED <<backoffFunc, ctxDone, requests>>
  /\ UNCHANGED <<runVars, parseVars>>

\* client.go:89-91: the select of the backoff wait takes <-ctx.Done()
BackoffDone ==
  /\ callPc = "backoff"
  /\ ctxDone
  /\ CallApply(OnCtxDone([CallCur EXCEPT
                  !.waits = Append(@, Wait("backoff", delay, requests, "ctx"))]))
  /\ UNCHANGED <<backoffFunc, ctxDone, requests>>
  /\ UNCHANGED <<runVars, parseVars>>

\* client.go:119-123: the select of the Retry-After wait takes the timer
HintElapsed ==
  /\ callPc = "hint"
  /\ TimerMayFire(delay, ctxDone)
  /\ CallApply(EndOfAttempt([CallCur EXCEPT
                  !.waits = Append(@, Wait("hint", delay, requests, "timer"))]))
  /\ UNCHANGED <<backoffFunc, ctxDone, requests>>
  /\ UNCHANGED <<runVars, parseVars>>

\* client.go:119-121: the select of the Retry-After wait takes <-ctx.Done()
HintDone ==
  /\ callPc = "hint"
  /\ ctxDone
  /\ CallApply(OnCtxDone([CallCur EXCEPT
                  !.waits = Append(@, Wait("hint", delay, requests, "ctx"))]))
  /\ UNCHANGED <<backoffFunc, ctxDone, requests>>
  /\ UNCHANGED <<runVars, parseVars>>

\* the caller cancels ctx while the call is under way
CallCancel ==
  /\ callPc \notin CallTerminal
  /\ ~ctxDone
  /\ ctxDone' = TRUE
  /\ UNCHANGED <<backoffFunc, callPc, callAttempt, delay, httpResp, lastErr,
                 callErr, requests, waits>>
  /\ UNCHANGED <<runVars, parseVars>>

NextCall ==
  Do \/ BackoffElapsed \/ BackoffDone \/ HintElapsed \/ HintDone \/ CallCancel

SpecCall == InitCall /\ [][NextCall]_vars

(***************************************************************************)
(* Verdict extraction on its own: parseConsensusJSON applied to one reply  *)
(* text of the judge model.                                                *)
(***************************************************************************)
\* what the prose around an object is made of: words, blanks and braces
ProseTokens == {TXT, WS, LB, RB}

\* the prose texts of at most MaxProse tokens
ProseTexts == UNION {[1..n -> ProseTokens] : n \in 0..MaxProse}

\* the shapes of a reply that carries one object (part_004:91-143)
Forms == {"bare", "fenced-json", "fenced", "prose"}

\* the reply text of the shape f around the object of the verdict v
ReplyText(f, v, lead, trail) ==
  CASE f = "bare" -> Bare(v)
    [] f = "fenced-json" -> FencedJSON(v)
    [] f = "fenced" -> FencedNoLang(v)
    [] f = "prose" -> lead \o Bare(v) \o trail

\* a reply text of the judge model around the object of one verdict
InitParse ==
  /\ EngineAtRest
  /\ CallAtRest
  /\ inner \in Verdicts
  /\ form \in Forms
  /\ \E lead \in ProseTexts, trail \in ProseTexts :
       /\ form = "prose" => (lead # <<>> \/ trail # <<>>)
       /\ form # "prose" => (lead = <<>> /\ trail = <<>>)
       /\ raw = ReplyText(form, inner, lead, trail)
  /\ extracted = NilPtr

\* judge.go:63  result, ok := parseConsensusJSON(raw)
ParseReply ==
  /\ extracted = NilPtr
  /\ extracted' = Ptr(parseConsensusJSON(raw))
  /\ UNCHANGED <<raw, inner, form>>
  /\ UNCHANGED <<runVars, callVars>>

NextParse == ParseReply

SpecParse == InitParse /\ [][NextParse]_vars




(***************************************************************************)
(* Vocabulary of the properties.                                           *)
(***************************************************************************)
\* the verdict is convergent with strength >= 7
Converged(v) == v.Detected /\ v.Score >= 7

\* the number of original participants
NumDebaters == Cardinality({i \in DOMAIN agents : agents[i].Role = "debater"})

\* the positions in verdictLog of the verdicts computed in each phase
Phase1Verdicts == {i \in DOMAIN verdictLog : verdictLog[i].phase = FreeDebate}
Phase2Verdicts == {i \in DOMAIN verdictLog : verdictLog[i].phase = TenthManPhase}

\* the Phase 1 verdicts that are convergent with strength >= 7
Triggers == {i \in Phase1Verdicts : Converged(verdictLog[i].verdict)}

\* the turns produced while the phase was ph, as positions in events
TurnsIn(ph) == {i \in DOMAIN events : events[i].kind = "turn" /\ events[i].phase = ph}

\* the positions in the Transcript of the turns of round r
TurnsOfRound(r) == {i \in DOMAIN transcript.Turns : transcript.Turns[i].Round = r}

InPhase2 == transcript.Phase = TenthManPhase

Succeeded == pc = "done"

LastVerdict == verdictLog[Len(verdictLog)]

\* the reply of a call outcome parses as a verdict
Parses(out) ==
  out.kind = "ok" /\ Len(out.choices) > 0 /\ parseConsensusJSON(out.choices[1]).ok

\* a call returned a reply whose text does not parse
Unparseable(out) ==
  out.kind = "ok" /\ Len(out.choices) > 0 /\ ~parseConsensusJSON(out.choices[1]).ok

C2_Phase1StopsAtFirstConvergence ==
  \A i \in Triggers :
    /\ \A j \in Phase1Verdicts : j <= i /\ (j < i => ~Converged(verdictLog[j].verdict))
    /\ Cardinality(TurnsIn(FreeDebate)) = verdictLog[i].round * NumDebaters
    /\ \A t \in TurnsIn(FreeDebate) : events[t].turn.Round <= verdictLog[i].round

\* C2 witness: Phase 1 stopped at round 1 although maxRounds is 2, and the
\* run went on to its end
C2_Witness ==
  /\ Succeeded
  /\ maxRounds = 2
  /\ \E i \in Triggers : verdictLog[i].round = 1

\* C3: in ContrarianPhase at most 3 rounds beyond the boundary round r are
\* run; a successful run that entered it ends with rounds-completed = r + 3
\* and r x N + 3 x (N + 1) turns, each of the rounds r+1..r+3 holding one turn
\* of each of the N + 1 participants, in their order.
C3_ThreeContrarianRounds ==
  InPhase2 =>
    \A i \in Triggers :
      LET r == verdictLog[i].round
          n == NumDebaters
      IN /\ transcript.Rounds <= r + 3
         /\ \A t \in DOMAIN transcript.Turns : transcript.Turns[t].Round <= r + 3
         /\ Succeeded =>
              /\ transcript.Rounds = r + 3
              /\ Len(transcript.Turns) = r * n + 3 * (n + 1)
              /\ Len(agents) = n + 1
              /\ \A j \in 1..3 : \A a \in 1..(n + 1) :
                   LET t == r * n + (j - 1) * (n + 1) + a
                   IN /\ transcript.Turns[t].Round = r + j
                      /\ transcript.Turns[t].Agent = agents[a]

\* C3 witness: a successful run that entered ContrarianPhase at boundary 2
C3_Witness ==
  /\ Succeeded
  /\ InPhase2
  /\ \E i \in Triggers : verdictLog[i].round = 2

\* C4: with minRounds <= maxRounds, as long as no verdict is convergent with
\* strength >= 7 the phase is FreeDebate, no contrarian participant exists
\* and no round beyond maxRounds is run; a run that so succeeds has executed
\* exactly maxRounds rounds and recorded maxRounds x participantCount turns.
C4_NoConvergenceRunsMaxRounds ==
  (minRounds <= maxRounds /\ Triggers = {}) =>
    /\ transcript.Phase = FreeDebate
    /\ Len(agents) = NumDebaters
    /\ transcript.Rounds <= maxRounds
    /\ Len(transcript.Turns) <= maxRounds * NumDebaters
    /\ Succeeded =>
         /\ transcript.Rounds = maxRounds
         /\ Len(transcript.Turns) = maxRounds * NumDebaters
         /\ \A r \in 1..maxRounds : Cardinality(TurnsOfRound(r)) = NumDebaters

\* C4 witness: a successful run of 2 rounds with two verdicts, neither of
\* them convergent with strength >= 7
C4_Witness ==
  /\ Succeeded
  /\ minRounds = 1
  /\ maxRounds = 2
  /\ Len(verdictLog) = 2
  /\ Triggers = {}

\* C5: at most one verdict is computed in ContrarianPhase; it is computed
\* on the complete transcript after the 3 rounds, it ends the run (no turn,
\* no notification and no phase change follows it) and it is the verdict of
\* the RunResult, whatever it is; a successful run that entered
\* ContrarianPhase has exactly one such verdict.
C5_FinalVerdictOverwrites ==
  /\ Cardinality(Phase2Verdicts) <= 1
  /\ (Succeeded /\ InPhase2) => Cardinality(Phase2Verdicts) = 1
  /\ \A i \in Phase2Verdicts :
       /\ i = Len(verdictLog)
       /\ Succeeded
       /\ verdictLog[i].turns = Len(transcript.Turns)
       /\ verdictLog[i].round = transcript.Rounds
       /\ \A j \in Triggers : verdictLog[i].round = verdictLog[j].round + 3
       /\ events[Len(events)].kind = "turn"
       /\ Len(agents) = NumDebaters + 1
       /\ result # NilPtr
       /\ Deref(result).Consensus = Ptr(verdictLog[i].verdict)

\* C5 witness: the final verdict is not convergent and replaced the Phase 1
\* verdict in the RunResult
C5_Witness ==
  /\ Succeeded
  /\ InPhase2
  /\ ~LastVerdict.verdict.Detected
  /\ Deref(result).Consensus = Ptr(LastVerdict.verdict)

\* C6: a run with 1 <= minRounds <= maxRounds that returns success returns a
\* RunResult holding the Transcript and a non-nil Verdict, the one the most
\* recent Evaluate of the run returned.
C6_SuccessHasLastVerdict ==
  (Succeeded /\ 1 <= minRounds /\ minRounds <= maxRounds) =>
    /\ result # NilPtr
    /\ err = ""
    /\ Deref(result).Transcript = transcript
    /\ Deref(result).Consensus # NilPtr
    /\ verdictLog # <<>>
    /\ Deref(Deref(result).Consensus) = LastVerdict.verdict

\* C6 witness: a successful run in which convergence was never detected
C6_Witness ==
  /\ Succeeded
  /\ 1 <= minRounds
  /\ minRounds <= maxRounds
  /\ ~InPhase2
  /\ Deref(Deref(result).Consensus) = ZeroResult

\* C7: once a turn call or an Evaluate has returned a failure, Run has
\* returned a failure and no RunResult, and nothing more happens: no call,
\* no append, no notification, no verdict; the step in which the failure is
\* met leaves the Transcript and the notifications as they were.
C7_FailureAborts ==
  /\ [](failure # "none" => (pc = "failed" /\ result = NilPtr /\ err # ""))
  /\ [][failure # "none" =>
          UNCHANGED <<transcript, events, verdictLog, evalOutcomes, agents, pc>>]_vars
  /\ [][failure' # "none" => (transcript' = transcript /\ events' = events)]_vars

\* C7 witness: a turn call failed in the middle of a round, after turns
\* had been appended
C7_Witness ==
  /\ failure = "turn-call"
  /\ pc = "failed"
  /\ Len(transcript.Turns) = 4

\* C8: when the three attempts of one Evaluate all got replies that do not
\* parse, Evaluate has returned the zero-value Verdict and no error, and Run
\* has gone on from that checkpoint without a phase transition: to the next
\* round of Phase 1, or to its successful return.
C8_ExhaustedJudgeDegrades ==
  (Len(evalOutcomes) = 3 /\ \A i \in 1..3 : Unparseable(evalOutcomes[i])) =>
    /\ evalState = "verdict"
    /\ LastVerdict.verdict = ZeroResult
    /\ LastVerdict.verdict = [Detected |-> FALSE, Position |-> "", Score |-> 0,
                              Dissenters |-> <<>>]
    /\ consensus = Ptr(ZeroResult)
    /\ failure = "none"
    /\ err = ""
    /\ transcript.Phase = LastVerdict.phase
    /\ Len(events) = LastVerdict.turns + 1 + LastVerdict.phase
    /\ IF LastVerdict.phase = FreeDebate /\ LastVerdict.round < maxRounds
         THEN pc = "p1_turn" /\ round = LastVerdict.round + 1 /\ idx = 1
         ELSE Succeeded /\ Deref(result).Consensus = Ptr(ZeroResult)

\* C8 witness: three replies that do not parse at the checkpoint of round 1,
\* and Run is at the first turn of round 2
C8_Witness ==
  /\ Len(evalOutcomes) = 3
  /\ \A i \in 1..3 : Unparseable(evalOutcomes[i])
  /\ pc = "p1_turn"
  /\ round = 2

\* C9: one Evaluate makes at most 3 calls and none after a reply that
\* parses: a first reply that parses gives exactly 1 call; replies that do
\* not parse, do not parse, parse give exactly 3 calls and the verdict
\* parsed from the third.
C9_JudgeCallBudget ==
  /\ Len(evalOutcomes) <= 3
  /\ \A i \in 1..(Len(evalOutcomes) - 1) : Unparseable(evalOutcomes[i])
  /\ \A i \in DOMAIN evalOutcomes :
       Parses(evalOutcomes[i]) =>
         /\ i = Len(evalOutcomes)
         /\ evalState = "verdict"
         /\ LastVerdict.verdict = parseConsensusJSON(evalOutcomes[i].choices[1]).result
  /\ evalState = "running" => Len(evalOutcomes) < 3

\* C9 witness: two replies that do not parse, then one that does
C9_Witness ==
  /\ Len(evalOutcomes) = 3
  /\ Unparseable(evalOutcomes[1])
  /\ Unparseable(evalOutcomes[2])
  /\ Parses(evalOutcomes[3])
  /\ evalState = "verdict"
  /\ LastVerdict.verdict.Score = 7

\* C10: Evaluate returns a failure only when a call it made failed; in
\* every other case, whatever the replies hold, it returns a Verdict: it
\* neither fails nor crashes.
C10_EvaluateFailsOnlyOnCallFailure ==
  /\ evalState = "error" =>
       (evalOutcomes # <<>> /\ evalOutcomes[Len(evalOutcomes)].kind = "err")
  /\ evalState # "panic"

(***************************************************************************)
(* Vocabulary of the properties of the call layer.                         *)
(***************************************************************************)
\* the classification the specification gives: 429 or any 5xx
Retryable(status) == status = 429 \/ (status >= 500 /\ status <= 599)

\* a response is the last thing do returned
Responded == httpResp.kind = "resp"

\* doWithRetry has returned
CallReturned == callPc \in CallTerminal

\* a wait was begun after the last request
WaitsAfterLastRequest ==
  {i \in 1..Len(waits) : waits[i].after = requests}

\* a Retry-After wait was begun after the last request, or is under way
HintWaitMade ==
  callPc = "hint" \/ \E i \in WaitsAfterLastRequest : waits[i].kind = "hint"

\* the header text is a whole number of seconds greater than zero
PositiveWholeSeconds(h) ==
  /\ h # <<>>
  /\ \A i \in 1..Len(h) : IsDigit(h[i])
  /\ \E i \in 1..Len(h) : h[i] # "0"

\* doWithRetry is in one of its two waits
Waiting == callPc \in {"backoff", "hint"}

\* C11: one logical call issues at most 4 requests, and when all 4 responses
\* have a retryable status the call fails with the status and the body of
\* the 4th response.
C11_BudgetExhaustedCarriesLastStatus ==
  /\ requests <= 4
  /\ (CallReturned /\ requests = 4 /\ Responded /\ Retryable(httpResp.StatusCode))
       => (callPc = "err" /\ callErr = StatusError(httpResp))

\* C12: a response whose status is neither 200 nor retryable (429 or 5xx)
\* ends the call at once in failure: the error carries that status and body,
\* no wait and no request follows it; a first response of 400 ends the call
\* after exactly 1 request.
C12_NonRetryableFailsAtOnce ==
  (Responded /\ httpResp.StatusCode # 200 /\ ~Retryable(httpResp.StatusCode))
    => /\ callPc = "err"
       /\ callErr = StatusError(httpResp)
       /\ WaitsAfterLastRequest = {}
       /\ requests = callAttempt + 1
       /\ (callAttempt = 0 /\ httpResp.StatusCode = 400) => requests = 1

\* a second response, after one retry, is a 404: the call has failed with it
C12_Witness ==
  /\ callPc = "err"
  /\ requests = 2
  /\ callErr = CallErr("status", 404, "not found")
  /\ Len(waits) > 0

\* C13: when k retryable responses (0 <= k <= 3) are followed by a 200 the
\* call succeeds with that response after exactly k + 1 requests, and no
\* wait and no request follows the 200.
C13_SuccessStopsRetrying ==
  (Responded /\ httpResp.StatusCode = 200)
    => /\ callPc = "ok"
       /\ callErr = NoError
       /\ callAttempt \in 0..3
       /\ requests = callAttempt + 1
       /\ WaitsAfterLastRequest = {}
       /\ \A i \in 1..Len(waits) : waits[i].ended = "timer"

\* three retryable responses, then a 200
C13_Witness ==
  /\ callPc = "ok"
  /\ httpResp.StatusCode = 200
  /\ requests = 4
  /\ lastErr.type = "status" /\ Retryable(lastErr.status)

\* C14: a transport error of any attempt ends the call at once with that
\* error: no wait and no retry follows, whatever is left of the budget.
C14_TransportErrorFailsAtOnce ==
  (httpResp = NoResponse /\ (requests > 0 \/ callPc # "do"))
    => /\ callPc = "err"
       /\ callErr \in {DoFailed, DoCancelled}
       /\ callErr = DoFailed => WaitsAfterLastRequest = {}
       /\ callErr = DoCancelled => ctxDone
       /\ \A i \in 1..Len(waits) : waits[i].ended = "timer"

\* the second request meets a transport error while two retries are left
C14_Witness ==
  /\ callPc = "err"
  /\ callErr = DoFailed
  /\ requests = 2
  /\ callAttempt < maxRetries

\* C15: after a response a Retry-After wait is made exactly when the status
\* is 429, the hint is a positive whole number of seconds and the backoff
\* schedule is not the zero one.
C15_HintWaitExactlyWhenPositiveWhole ==
  Responded =>
    (HintWaitMade <=> /\ httpResp.StatusCode = 429
                      /\ PositiveWholeSeconds(httpResp.RetryAfter)
                      /\ backoffFunc # "noDelay")

\* C16: a cancellation that has fired before or during a wait ends the wait
\* at once: doWithRetry returns the cancellation failure, and no request is
\* issued once the context is done.  (A wait of no duration may also end by
\* its timer; do then returns the context's error without a request.)
C16_CancellationEndsWait ==
  /\ [][ctxDone => requests' = requests]_vars
  /\ [][(Waiting /\ ctxDone /\ Positive(delay))
          => (callPc' = "err" /\ callErr' = CtxError
              /\ waits'[Len(waits')].ended = "ctx")]_vars
  /\ [][(Waiting /\ ctxDone /\ ~Positive(delay))
          => (callPc' = "do" \/ (callPc' = "err" /\ callErr' = CtxError))]_vars
  /\ [][(callPc = "do" /\ ctxDone)
          => (callPc' = "err" /\ callErr' = DoCancelled)]_vars

\* a Retry-After wait that followed the second request was ended by ctx
C16_Witness ==
  /\ callPc = "err"
  /\ callErr = CtxError
  /\ requests = 2
  /\ waits # <<>>
  /\ waits[Len(waits)] = Wait("hint", TimesSecond(Int64(1)), 2, "ctx")

(***************************************************************************)
(* Cancellation and notifications of Engine.Run.                           *)
(***************************************************************************)
\* Run stands before a call of ChatCompletion
AtCall == pc \in {"p1_turn", "p2_turn", "p1_judge", "p2_judge"}

\* the failures that report the cancellation
CtxFailures == {"turn-ctx", "judge-ctx"}

IsTurnEvent(e) == e.kind = "turn"
IsPhaseEvent(e) == e.kind = "phase"

\* the turns the observer was told, in order
NotifiedTurns ==
  LET te == SelectSeq(events, IsTurnEvent)
  IN [i \in 1..Len(te) |-> te[i].turn]

\* how many times the observer was told the phase ph
PhaseNotifications(ph) ==
  Cardinality({i \in DOMAIN events : events[i] = OnPhase(ph)})

\* C17 as stated: once the cancellation signal has fired during a run, no
\* new call is issued and Run returns a cancellation failure, never a
\* RunResult, at whatever point the signal fires (here: in a run that has
\* reached a checkpoint, minRounds <= maxRounds).
C17_CancelledRunNeverSucceeds ==
  (cancelled /\ verdictLog # <<>> /\ minRounds <= maxRounds) => ~Succeeded

\* C17, amended: once the signal has fired no new turn or judge call is
\* issued, and at the check that precedes the next call Run returns a
\* cancellation failure and no RunResult.  (A signal that fires during the
\* last call of the run is not observed.)
C17_ObservedCancellationAborts ==
  /\ [][cancelled => /\ transcript' = transcript
                     /\ verdictLog' = verdictLog
                     /\ Len(evalOutcomes') <= Len(evalOutcomes)]_vars
  /\ [][(cancelled /\ AtCall)
          => (pc' = "failed" /\ result' = NilPtr /\ err' # ""
              /\ failure' \in CtxFailures)]_vars

\* the signal fired during the first attempt of an Evaluate whose reply did
\* not parse; the second attempt was not made
C17_Witness ==
  /\ pc = "failed"
  /\ cancelled
  /\ failure = "judge-ctx"
  /\ Len(evalOutcomes) = 1
  /\ Unparseable(evalOutcomes[1])

\* C18: when runRound observes the cancellation, Run fails and the
\* Transcript keeps exactly the turns appended so far, unchanged and in
\* order: none if it is observed before the first turn, k if after k turns.
C18_CancelledRunKeepsTurns ==
  [][(failure = "none" /\ failure' = "turn-ctx")
       => (pc' = "failed" /\ result' = NilPtr /\ transcript' = transcript)]_vars

\* cancellation observed in the middle of a round, after k > 0 turns
C18_Witness ==
  /\ failure = "turn-ctx"
  /\ pc = "failed"
  /\ Len(transcript.Turns) > 0
  /\ Len(transcript.Turns) % NumDebaters # 0
  /\ transcript.Phase = FreeDebate

\* C19: the phase notification fires at most twice: once for FreeDebate, at
\* the start of Run, and once more, for ContrarianPhase, if and only if the
\* run enters ContrarianPhase.
C19_PhaseNotifiedAtMostTwice ==
  /\ Len(SelectSeq(events, IsPhaseEvent)) <= 2
  /\ PhaseNotifications(FreeDebate) = (IF pc = "start" THEN 0 ELSE 1)
  /\ pc # "start" => events[1] = OnPhase(FreeDebate)
  /\ PhaseNotifications(TenthManPhase) = (IF InPhase2 THEN 1 ELSE 0)

\* a run that entered ContrarianPhase has returned
C19_Witness ==
  /\ Succeeded
  /\ InPhase2
  /\ Len(SelectSeq(events, IsPhaseEvent)) = 2

\* C20: the turn notification fires once per appended turn, in transcript
\* order, and is made before Run goes on to the next call; the notifications
\* of a run are FreeDebate, the Phase 1 turns, then, if entered,
\* ContrarianPhase and the Phase 2 turns.
C20_TurnNotifiedOncePerTurn ==
  /\ NotifiedTurns = transcript.Turns
  /\ \A i \in DOMAIN events :
       /\ \A j \in DOMAIN events : j < i => events[j].phase <= events[i].phase
       /\ IsPhaseEvent(events[i]) =>
            \A j \in DOMAIN events : j < i => events[j].phase < events[i].phase
       /\ i = 1 => events[i] = OnPhase(FreeDebate)

\* a run through both phases in which a participant's turns have no content
C20_Witness ==
  /\ Succeeded
  /\ InPhase2
  /\ \E i \in DOMAIN events : IsTurnEvent(events[i]) /\ events[i].turn.Content = ""
  /\ \E i \in DOMAIN events : IsTurnEvent(events[i]) /\ events[i].phase = TenthManPhase

(***************************************************************************)
(* The active set, the phase and the Transcript.                           *)
(***************************************************************************)
\* the positions of the contrarian participants in the active set
Contrarians == {i \in DOMAIN agents : agents[i].Role = "tenth-man"}

\* the participants that have spoken
Speakers == {transcript.Turns[i].Agent : i \in DOMAIN transcript.Turns}

\* s is t, or t with one element appended
AppendsAtMostOne(s, t) ==
  \/ s = t
  \/ Len(s) = Len(t) + 1 /\ SubSeq(s, 1, Len(t)) = t

\* C21: the contrarian is constructed at most once, at the transition only,
\* and appended after the original participants, which all stay in the
\* active set in their order: N members in Phase 1, N + 1 in Phase 2.
C21_ContrarianAppendedOnce ==
  LET n == NumDebaters
  IN /\ Cardinality(Contrarians) = (IF InPhase2 THEN 1 ELSE 0)
     /\ Len(agents) = n + Cardinality(Contrarians)
     /\ n \in MinAgents..MaxAgents
     /\ SubSeq(agents, 1, n) = makeAgents(n)
     /\ InPhase2 => agents[n + 1] = BuildAgent(consensusPosition, n + 1, tenthManModel)
     /\ \A a \in Speakers : \E i \in DOMAIN agents : agents[i] = a
     /\ \A i \in TurnsIn(FreeDebate) : events[i].turn.Agent.Role = "debater"

\* the contrarian has spoken in a run that has returned
C21_Witness ==
  /\ Succeeded
  /\ InPhase2
  /\ \E a \in Speakers : a.Role = "tenth-man"
  /\ Len(agents) = MinAgents + 1

\* C22: the Transcript phase is FreeDebate at first and, once it is
\* ContrarianPhase, it is ContrarianPhase in every later state, also after a
\* final verdict without convergence and after a failure.
C22_PhaseNeverReverts ==
  /\ (pc = "start" => transcript.Phase = FreeDebate)
  /\ [][transcript.Phase = TenthManPhase => transcript'.Phase = TenthManPhase]_vars

\* the run has returned from ContrarianPhase with a verdict without
\* convergence
C22_Witness ==
  /\ Succeeded
  /\ InPhase2
  /\ ~Converged(LastVerdict.verdict)

\* C23: every step leaves the turn sequence of the Transcript unchanged or
\* appends exactly one turn at its end.
C23_TurnsAppendOnly ==
  [][AppendsAtMostOne(transcript'.Turns, transcript.Turns)]_vars

\* the run failed in Evaluate with turns in the Transcript
C23_Witness ==
  /\ pc = "failed"
  /\ failure \in {"judge-call", "judge-ctx"}
  /\ Len(transcript.Turns) >= MinAgents

\* C29: with minRounds > maxRounds the Judge is never invoked and
\* ContrarianPhase never entered; Run does not crash, and when it returns a
\* result it has run exactly maxRounds rounds and the verdict is absent.
C29_MinRoundsNeverReached ==
  minRounds > maxRounds =>
    /\ pc \notin {"p1_judge", "p2_judge", "p2_turn", "panic"}
    /\ verdictLog = <<>>
    /\ evalState = "idle"
    /\ consensus = NilPtr
    /\ ~InPhase2
    /\ failure \notin {"judge-call", "judge-ctx"}
    /\ (pc \in Terminal /\ failure = "none") => Succeeded
    /\ Succeeded =>
         /\ transcript.Rounds = maxRounds
         /\ Len(transcript.Turns) = maxRounds * NumDebaters
         /\ Deref(result).Consensus = NilPtr
         /\ Deref(result).Transcript = transcript

\* two rounds were run with minRounds = 3
C29_Witness ==
  /\ Succeeded
  /\ minRounds > maxRounds
  /\ maxRounds = 2
  /\ transcript.Rounds = 2

\* C30: a turn call that returns a reply without choices makes the Engine
\* append a turn of that participant with the empty string as content and
\* notify it; the round goes on with the next participant and the run does
\* not fail.
C30_EmptyReplyIsEmptyTurn ==
  [][(pc \in {"p1_turn", "p2_turn"} /\ agents[idx].ID = silentAgent
        /\ failure' = "none" /\ transcript' # transcript)
       => LET turn == Turn(round, agents[idx], "")
          IN /\ transcript'.Turns = Append(transcript.Turns, turn)
             /\ events' = Append(events, OnTurn(turn, transcript.Phase))
             /\ pc' \notin {"failed", "panic"}
             /\ err' = ""
             /\ (idx < Len(agents) => (pc' = pc /\ idx' = idx + 1 /\ round' = round))]_vars

\* the second participant replied without choices and the round went on
C30_Witness ==
  /\ silentAgent = 2
  /\ Len(transcript.Turns) = 3
  /\ transcript.Turns[2].Content = ""
  /\ transcript.Turns[3].Content # ""
  /\ failure = "none"

(***************************************************************************)
(* The prompts.                                                            *)
(***************************************************************************)
\* how many participants speak in round r
RoundSize(r) ==
  IF InPhase2 /\ r >= startRound THEN NumDebaters + 1 ELSE NumDebaters

\* the place of the turn at position i among the turns of its round
PlaceInRound(i) ==
  Cardinality({j \in 1..i : transcript.Turns[j].Round = transcript.Turns[i].Round})

\* every round's turns stand together, in the order of the active set, one
\* for each participant
RoundsInOrder ==
  LET turns == transcript.Turns
  IN /\ \A i \in DOMAIN turns :
          /\ PlaceInRound(i) <= RoundSize(turns[i].Round)
          /\ turns[i].Agent = agents[PlaceInRound(i)]
     /\ turns # <<>> => turns[1].Round = 1
     /\ \A i \in 1..(Len(turns) - 1) :
          \/ turns[i + 1].Round = turns[i].Round
          \/ /\ turns[i + 1].Round = turns[i].Round + 1
             /\ PlaceInRound(i) = RoundSize(turns[i].Round)
     /\ \A r \in 1..transcript.Rounds : Cardinality(TurnsOfRound(r)) = RoundSize(r)

\* msgs is an instruction, then one message for each of turns in their
\* order, then the final directive
ShowsTurns(msgs, turns) ==
  /\ Len(msgs) = Len(turns) + 2
  /\ msgs[1].Role = "system"
  /\ \A i \in DOMAIN turns :
       msgs[i + 1] = Message("user", turns[i].Agent.Name \o ": " \o turns[i].Content)
  /\ msgs[Len(msgs)] = TurnDirective

\* C24: within every round the turns are produced in the fixed order of the
\* participants, each participant once, and the prompt of a turn call holds
\* every turn already in the Transcript, those of the same round included,
\* in transcript order between the instruction and the final directive.
C24_PromptShowsEarlierTurns ==
  /\ []RoundsInOrder
  /\ [][turnMsgs' # turnMsgs => ShowsTurns(turnMsgs', transcript.Turns)]_vars

\* the last prompt showed a turn of the round it was built in
C24_Witness ==
  /\ failure = "none"
  /\ Len(transcript.Turns) >= MinAgents + 2
  /\ Len(turnMsgs) = Len(transcript.Turns) + 1
  /\ LET n == Len(transcript.Turns)
     IN /\ transcript.Turns[n].Round = transcript.Turns[n - 1].Round
        /\ turnMsgs[n] = Message("user", TurnLine(transcript.Turns[n - 1]))

\* C25: the prompt variant follows (role, phase): the contrarian gets the
\* mandate, with the converged position; another participant gets the
\* engage-with-the-contrarian variant exactly when the Transcript is in
\* ContrarianPhase and the standard instruction exactly when it is in
\* FreeDebate.
C25_PromptVariantByRoleAndPhase ==
  [][turnMsgs' # turnMsgs =>
       LET a == agents[idx]
           sys == turnMsgs'[1]
           topic == transcript.Topic
       IN /\ sys.Role = "system"
          /\ a.Role = "tenth-man" =>
               /\ sys.Content = SystemPrompt(consensusPosition)
               /\ consensusPosition = Deref(consensus).Position
          /\ a.Role # "tenth-man" =>
               /\ sys.Content = phase2SystemPrompt(a, topic) <=> transcript.Phase = TenthManPhase
               /\ sys.Content = agentSystemPrompt(a, topic) <=> transcript.Phase = FreeDebate]_vars

\* the contrarian has been prompted, and after it a debater
C25_Witness ==
  /\ InPhase2
  /\ failure = "none"
  /\ turnMsgs # <<>>
  /\ turnMsgs[1].Content = phase2SystemPrompt(agents[1], transcript.Topic)
  /\ \E i \in DOMAIN transcript.Turns : transcript.Turns[i].Agent.Role = "tenth-man"

\* C27: in one Evaluate the first attempt sends the fixed instruction and
\* the serialized transcript and nothing else; every later attempt sends
\* the same two messages in the same places, then the corrective message.
C27_RetryResendsPrompt ==
  /\ Len(evalMsgs) = Len(evalOutcomes)
  /\ Len(evalMsgs) <= maxJudgeRetries
  /\ \A i \in DOMAIN evalMsgs :
       LET msgs == evalMsgs[i]
       IN /\ msgs[1] = JudgeSystem
          /\ msgs[2] = Message("user", Serialize(transcript.Turns))
          /\ i = 1 => Len(msgs) = 2
          /\ i > 1 => /\ Len(msgs) = 3
                      /\ msgs[3] = JudgeCorrective
                      /\ SubSeq(msgs, 1, 2) = evalMsgs[1]

\* an Evaluate has made its three attempts
C27_Witness ==
  /\ Len(evalMsgs) = maxJudgeRetries
  /\ evalState = "verdict"
  /\ Len(transcript.Turns) >= MinAgents

(***************************************************************************)
(* Verdict extraction.                                                     *)
(***************************************************************************)
\* the braces of a reply text
Braces(s) == {i \in DOMAIN s : s[i] \in {LB, RB}}

\* extraction went through the three strategies in their order and stopped
\* at the first that parsed
FirstStrategyWins ==
  LET direct == jsonUnmarshal(raw)
      block == codeBlockMatch(raw)
      fenced == jsonUnmarshal(block.capture)
      span == braceSpan(raw)
      scanned == jsonUnmarshal(span.text)
      got == Deref(extracted)
  IN /\ direct.ok => got = direct
     /\ (~direct.ok /\ block.found /\ fenced.ok) => got = fenced
     /\ (~direct.ok /\ ~(block.found /\ fenced.ok) /\ span.found /\ scanned.ok)
          => got = scanned
     /\ got.ok => (direct.ok \/ (block.found /\ fenced.ok) \/ (span.found /\ scanned.ok))

\* C26: extraction yields the verdict of the inner object whatever the
\* shape of the reply (bare, fenced with a language tag, fenced without,
\* with prose before or after), the three strategies being tried in their
\* order, the first that parses winning.
C26_FormsParseAlike ==
  extracted # NilPtr =>
    /\ Deref(extracted) = [ok |-> TRUE, result |-> inner]
    /\ FirstStrategyWins

\* the same, for the replies whose only braces are those of the object
FormsParseAlikeWithoutStrayBraces ==
  (extracted # NilPtr /\ Cardinality(Braces(raw)) = 2) =>
    /\ Deref(extracted) = [ok |-> TRUE, result |-> inner]
    /\ FirstStrategyWins

\* C28: every verdict Evaluate returns from a parsed reply has a strength
\* in 1..10; the strength 0 comes only with the default verdict after three
\* replies that did not parse, and no strength outside 0..10 reaches Run.
C28_StrengthInRange ==
  evalState = "verdict" =>
    LET v == LastVerdict.verdict
    IN \/ v.Score \in 1..10
       \/ /\ v = ZeroResult
          /\ Len(evalOutcomes) = maxJudgeRetries
          /\ \A i \in DOMAIN evalOutcomes : Unparseable(evalOutcomes[i])

(***************************************************************************)
(* The backoff schedule.                                                   *)
(***************************************************************************)
\* the positions in waits of the backoff waits
BackoffWaits == {i \in DOMAIN waits : waits[i].kind = "backoff"}

\* d is n whole seconds
IsSeconds(d, n) == d = TimesSecond(Int64(n))

\* the seconds of the wait before the retry k with the default schedule
DefaultSchedule == <<1, 2, 4>>

\* C32: no wait precedes the first attempt of a logical call, and with the
\* default schedule the backoff wait before the retry k (k = 1, 2, 3) lasts
\* 2^(k-1) seconds: 1 s, 2 s, 4 s, each the double of the one before.
C32_BackoffDoubles ==
  /\ requests = 0 => (waits = <<>> /\ ~Waiting)
  /\ \A i \in DOMAIN waits : waits[i].after >= 1
  /\ \A i \in BackoffWaits : waits[i].after \in 1..maxRetries
  /\ callPc = "backoff" => callAttempt = requests
  /\ backoffFunc = "defaultBackoff" =>
       /\ \A i \in BackoffWaits :
            /\ IsSeconds(waits[i].d, DefaultSchedule[waits[i].after])
            /\ IsSeconds(waits[i].d, 2 ^ (waits[i].after - 1))
       /\ \A i, j \in BackoffWaits :
            /\ (waits[j].after = waits[i].after + 1)
                 => waits[j].d = MulAdd(waits[i].d, 2, 0)
            /\ (waits[j].after = waits[i].after) => i = j
       /\ callPc = "backoff" => IsSeconds(delay, DefaultSchedule[callAttempt])

\* the three backoff waits of the default schedule have been made
C32_Witness ==
  /\ backoffFunc = "defaultBackoff"
  /\ Cardinality(BackoffWaits) = maxRetries
  /\ requests = maxRetries + 1
  /\ \A i \in BackoffWaits : waits[i].ended = "timer"

(***************************************************************************)
(* Who writes the Transcript.                                              *)
(***************************************************************************)
TurnPcs == {"p1_turn", "p2_turn"}
JudgePcs == {"p1_judge", "p2_judge"}

\* the step is the phase transition of Run
IsTransition ==
  /\ pc = "p1_judge"
  /\ transcript.Phase = FreeDebate
  /\ transcript'.Phase = TenthManPhase
  /\ Len(events') = Len(events) + 1
  /\ events'[Len(events')] = OnPhase(TenthManPhase)
  /\ Len(agents') = Len(agents) + 1

\* the step appends the turn of the participant whose turn it is, and
\* counts the round when that participant is the last
IsRoundExecution ==
  /\ pc \in TurnPcs
  /\ Len(transcript'.Turns) = Len(transcript.Turns) + 1
  /\ SubSeq(transcript'.Turns, 1, Len(transcript.Turns)) = transcript.Turns
  /\ LET turn == transcript'.Turns[Len(transcript'.Turns)]
     IN turn.Round = round /\ turn.Agent = agents[idx]
  /\ transcript'.Rounds = IF idx = Len(agents) THEN round ELSE transcript.Rounds
  /\ transcript'.Topic = transcript.Topic
  /\ transcript'.Phase = transcript.Phase

\* C31: Evaluate and the prompt builder never modify the Transcript: a step
\* of Evaluate leaves its turns, topic and rounds-completed as they were and
\* its phase too unless Run makes the phase transition on the verdict; a
\* turn step changes it by the round execution only, and the prompt it built
\* shows the Transcript as it was.
C31_OnlyRunWritesTranscript ==
  [][/\ pc \in JudgePcs =>
          /\ transcript'.Turns = transcript.Turns
          /\ transcript'.Topic = transcript.Topic
          /\ transcript'.Rounds = transcript.Rounds
          /\ (transcript'.Phase = transcript.Phase \/ IsTransition)
          /\ evalState' # "verdict" => transcript' = transcript
          /\ \A i \in DOMAIN evalMsgs' :
               evalMsgs'[i][2].Content = Serialize(transcript'.Turns)
     /\ pc \in TurnPcs => (transcript' = transcript \/ IsRoundExecution)
     /\ pc \notin (JudgePcs \cup TurnPcs) => transcript' = transcript]_vars

\* the second evaluation of a run has returned after three attempts, the
\* Transcript holding the turns of Phase 1 and Phase 2
C31_Witness ==
  /\ Succeeded
  /\ InPhase2
  /\ Len(evalMsgs) = maxJudgeRetries
  /\ Len(transcript.Turns) = transcript.Rounds * NumDebaters + tenthManRounds

(***************************************************************************)
(* The evaluations of Phase 1.                                             *)
(***************************************************************************)
\* the last round of Phase 1, once Phase 1 is over (0 before)
Phase1End ==
  IF InPhase2 THEN startRound - 1
  ELSE IF pc = "done" THEN transcript.Rounds
  ELSE 0

\* how many rounds from minRounds to r there are
DueRounds(r) == IF r >= minRounds THEN r - minRounds + 1 ELSE 0

\* C33: in Phase 1 Evaluate is invoked once after each completed round r
\* with r >= minRounds, the round at which Phase 1 ends included, and after
\* no round below minRounds; each invocation has before it the turns of the
\* rounds 1..r and no other; a run that converges at round minRounds and
\* completes Phase 2 makes 2 invocations.
C33_JudgeAfterEachDueRound ==
  /\ \A i \in Phase1Verdicts :
       /\ verdictLog[i].round = minRounds + i - 1
       /\ verdictLog[i].round <= maxRounds
       /\ verdictLog[i].turns = verdictLog[i].round * NumDebaters
       /\ \A j \in Phase2Verdicts : i < j
  /\ pc = "p1_turn" => Cardinality(Phase1Verdicts) = DueRounds(round - 1)
  /\ pc = "p1_judge" =>
       /\ round >= minRounds
       /\ transcript.Rounds = round
       /\ Cardinality(Phase1Verdicts) = DueRounds(round - 1)
       /\ Len(transcript.Turns) = round * NumDebaters
       /\ \A i \in DOMAIN transcript.Turns : transcript.Turns[i].Round \in 1..round
       /\ \A i \in DOMAIN evalMsgs :
            evalMsgs[i][2] = Message("user", Serialize(transcript.Turns))
  /\ Phase1End > 0 => Cardinality(Phase1Verdicts) = DueRounds(Phase1End)
  /\ (Succeeded /\ InPhase2 /\ startRound = minRounds + 1) => Len(verdictLog) = 2

\* Phase 1 was evaluated after its rounds 1 and 2, then Phase 2 completed
C33_Witness ==
  /\ Succeeded
  /\ InPhase2
  /\ minRounds = 1
  /\ Cardinality(Phase1Verdicts) = 2
  /\ Len(verdictLog) = 3

(***************************************************************************)
(* Round numbering.                                                        *)
(***************************************************************************)
\* the rounds in which every active participant has spoken
CompletedRounds ==
  {r \in 1..(maxRounds + tenthManRounds) : Cardinality(TurnsOfRound(r)) = RoundSize(r)}

\* the largest member of a finite set of naturals, 0 for the empty set
Highest(S) == IF S = {} THEN 0 ELSE CHOOSE m \in S : \A n \in S : n <= m

\* the round at which the last Phase 1 verdict was computed
Boundary == verdictLog[Highest(Phase1Verdicts)].round

\* the round numbers of the turns spoken in ContrarianPhase
Phase2Rounds == {events[i].turn.Round : i \in TurnsIn(TenthManPhase)}

\* C34: rounds-completed is the number of the last round in which every
\* active participant has spoken, a round cut short by a failure or a
\* cancellation not being counted; the round numbers of the turns start at
\* 1 and go up along the Transcript without a gap; the rounds of Phase 2
\* are numbered boundary + 1, boundary + 2, boundary + 3.
C34_RoundsCompletedAndNumbering ==
  /\ transcript.Rounds = Highest(CompletedRounds)
  /\ CompletedRounds = 1..transcript.Rounds
  /\ LET turns == transcript.Turns
     IN /\ turns # <<>> => turns[1].Round = 1
        /\ \A i \in 1..(Len(turns) - 1) :
             turns[i + 1].Round \in {turns[i].Round, turns[i].Round + 1}
        /\ \A i \in DOMAIN turns : turns[i].Round \in 1..(transcript.Rounds + 1)
  /\ InPhase2 =>
       /\ startRound = Boundary + 1
       /\ Phase2Rounds \subseteq (Boundary + 1)..(Boundary + tenthManRounds)
       /\ \A r \in Phase2Rounds : \A q \in (Boundary + 1)..r : q \in Phase2Rounds
       /\ \A i \in TurnsIn(FreeDebate) : events[i].turn.Round <= Boundary
       /\ pc \in {"p2_judge", "done"} =>
            Phase2Rounds = (Boundary + 1)..(Boundary + tenthManRounds)

\* a run was cancelled in the middle of its second Phase 2 round
C34_Witness ==
  /\ InPhase2
  /\ failure = "turn-ctx"
  /\ Cardinality(Phase2Rounds) = 2
  /\ transcript.Rounds = Boundary + 1
  /\ transcript.Turns[Len(transcript.Turns)].Round = Boundary + 2

(***************************************************************************)
(* The turns of the contrarian.                                            *)
(***************************************************************************)
\* the positions in the Transcript of the contrarian's turns
ContrarianTurns ==
  {i \in DOMAIN transcript.Turns : transcript.Turns[i].Agent.Role = "tenth-man"}

\* the positions of the turns the participant a spoke after the boundary
Phase2TurnsOf(a) ==
  {i \in DOMAIN transcript.Turns :
     transcript.Turns[i].Agent = a /\ transcript.Turns[i].Round > Boundary}

\* the three rounds of ContrarianPhase have been run
Phase2Complete == InPhase2 /\ transcript.Rounds = Boundary + tenthManRounds

\* C35: the contrarian has no turn in a round up to the boundary; in a run
\* that completes ContrarianPhase it has exactly 3 turns, one in each
\* Phase 2 round and each the last turn of its round, and each original
\* participant has exactly 3 Phase 2 turns.
C35_ContrarianSpeaksLastThrice ==
  /\ \A i \in ContrarianTurns : InPhase2 /\ transcript.Turns[i].Round > Boundary
  /\ Phase2Complete =>
       /\ Cardinality(ContrarianTurns) = tenthManRounds
       /\ \A r \in (Boundary + 1)..(Boundary + tenthManRounds) :
            /\ Cardinality(ContrarianTurns \cap TurnsOfRound(r)) = 1
            /\ Highest(TurnsOfRound(r)) \in ContrarianTurns
       /\ \A a \in 1..NumDebaters :
            /\ agents[a].Role = "debater"
            /\ Cardinality(Phase2TurnsOf(agents[a])) = tenthManRounds

\* a run has completed ContrarianPhase and returned
C35_Witness ==
  /\ Succeeded
  /\ Phase2Complete
  /\ Cardinality(ContrarianTurns) = tenthManRounds
  /\ transcript.Turns[Len(transcript.Turns)].Agent.Role = "tenth-man"

(***************************************************************************)
(* The position the contrarian argues against.                             *)
(***************************************************************************)
\* the position text of the Phase 1 verdict that triggered the transition
TriggerPosition == verdictLog[Highest(Phase1Verdicts)].verdict.Position

\* C36: throughout Phase 2 every prompt built for the contrarian carries
\* the position text of the Phase 1 verdict that triggered the transition;
\* the text is fixed at the transition: neither a later round nor the final
\* evaluation changes it.
C36_ContrarianPromptKeepsPosition ==
  /\ [](InPhase2 => /\ consensusPosition = TriggerPosition
                    /\ Converged(verdictLog[Highest(Phase1Verdicts)].verdict))
  /\ [](~InPhase2 => consensusPosition = "")
  /\ [][InPhase2 => consensusPosition' = consensusPosition]_vars
  /\ [][(turnMsgs' # turnMsgs /\ agents[idx].Role = "tenth-man")
          => /\ InPhase2
             /\ turnMsgs'[1] = Message("system", SystemPrompt(TriggerPosition))]_vars

\* the contrarian was prompted in the last round and the final verdict
\* states another position
C36_Witness ==
  /\ Succeeded
  /\ Phase2Complete
  /\ turnMsgs[1] = Message("system", SystemPrompt("P"))
  /\ LastVerdict.verdict.Position # consensusPosition
  /\ consensusPosition = "P"

\* C37: whenever a participant other than the contrarian is sent the
\* Phase 2 prompt that demands engaging with the contrarian's arguments,
\* the Transcript supplied with it already holds a turn of the contrarian.
C37_EngagePromptFollowsContrarian ==
  [][(/\ turnMsgs' # turnMsgs
      /\ agents[idx].Role # "tenth-man"
      /\ turnMsgs'[1].Content = phase2SystemPrompt(agents[idx], transcript.Topic))
       => /\ ContrarianTurns # {}
          /\ \E i \in ContrarianTurns :
               turnMsgs'[i + 1] = Message("user", TurnLine(transcript.Turns[i]))]_vars

\* the same from the second round of Phase 2 on
EngagePromptFollowsContrarianAfterFirstRound ==
  [][(/\ turnMsgs' # turnMsgs
      /\ agents[idx].Role # "tenth-man"
      /\ turnMsgs'[1].Content = phase2SystemPrompt(agents[idx], transcript.Topic)
      /\ round > startRound)
       => /\ ContrarianTurns # {}
          /\ \E i \in ContrarianTurns :
               turnMsgs'[i + 1] = Message("user", TurnLine(transcript.Turns[i]))]_vars

(***************************************************************************)
(* The end of the retry budget.                                            *)
(***************************************************************************)
\* C38: doWithRetry never waits after its final (4th) attempt: when the 4th
\* response has a retryable status, a 429 with a retry hint included, the
\* call fails with that status and body at once, without a retry-hint wait,
\* and a cancellation arriving then does not put a cancellation error in
\* the place of the status error.
C38_NoWaitAfterFinalAttempt ==
  /\ \A i \in DOMAIN waits : waits[i].after <= maxRetries
  /\ Waiting => requests <= maxRetries
  /\ (requests = maxRetries + 1 /\ Responded /\ Retryable(httpResp.StatusCode))
       => /\ callPc = "err"
          /\ callErr = StatusError(httpResp)
          /\ callErr # CtxError

\* the same for final responses that carry no retry hint that applies
NoWaitAfterFinalAttemptWithoutHint ==
  (requests = maxRetries + 1 /\ Responded /\ Retryable(httpResp.StatusCode)
     /\ ~RetryAfterApplies(httpResp))
    => /\ callPc = "err"
       /\ callErr = StatusError(httpResp)
       /\ \A i \in DOMAIN waits : waits[i].after <= maxRetries

(***************************************************************************)
(* Replies without choices.                                                *)
(***************************************************************************)
\* a call returned a reply that holds no choice
NoChoices(out) == out.kind = "ok" /\ Len(out.choices) = 0

\* C39: Evaluate never crashes on a successful reply without choices: the
\* reply counts as an attempt that did not parse, followed by the next
\* attempt or, after the third, by the default verdict.
C39_EvaluateSurvivesEmptyReply ==
  /\ pc # "panic"
  /\ evalState # "panic"
  /\ (evalOutcomes # <<>> /\ NoChoices(evalOutcomes[Len(evalOutcomes)])) =>
       IF Len(evalOutcomes) < maxJudgeRetries
         THEN evalState = "running"
         ELSE evalState = "verdict" /\ LastVerdict.verdict = ZeroResult

\* the turn path takes a reply without choices as empty content: no turn
\* step crashes
TurnPathSurvivesEmptyReply ==
  [][(pc \in TurnPcs) => (pc' # "panic")]_vars

(***************************************************************************)
(* Termination.                                                            *)
(***************************************************************************)
\* the evaluations that have been entered
EvaluationsBegun ==
  Len(verdictLog) + (IF evalState \in {"running", "error", "panic"} THEN 1 ELSE 0)

\* the sizes of a run are bounded: at most maxRounds + 3 rounds, at most
\* one evaluation for each round from minRounds to maxRounds and one more,
\* at most 3 calls in an evaluation
RunIsBounded ==
  /\ round <= maxRounds + tenthManRounds
  /\ transcript.Rounds <= maxRounds + tenthManRounds
  /\ Len(transcript.Turns) <= (maxRounds + tenthManRounds) * (NumDebaters + 1)
  /\ EvaluationsBegun <= DueRounds(maxRounds) + 1
  /\ Len(evalOutcomes) <= maxJudgeRetries
  /\ attempt < maxJudgeRetries

\* a logical call issues at most 4 requests
CallIsBounded == requests <= maxRetries + 1

\* Run has returned a result or a failure
Returned == pc \in {"done", "failed"}

\* C40: every run terminates when each request returns: Run executes at
\* most maxRounds + 3 rounds and at most (maxRounds - minRounds + 1) + 1
\* evaluations of at most 3 calls each, and it goes on until it has reached
\* success or failure.
C40_RunReachesSuccessOrFailure ==
  /\ RunIsBounded
  /\ Returned \/ ENABLED Next

\* every run whose calls return comes to an end
Termination == <>(pc \in Terminal)


====
